---- MODULE Spec2Model ----
(***************************************************************************)
(* A model of the WooCommerce bridge of the POS backend:                   *)
(*   - outbound batch sync  (utils/woocommerce-sync.js,                    *)
(*     controllers/woocommerceSyncController.js), specification SpecSync;  *)
(*   - inbound order webhooks (controllers/webhookController.js, kept in   *)
(*     src/unnamed/part_005), specifications SpecStock and SpecMerge.      *)
(***************************************************************************)
EXTENDS Integers, Sequences, FiniteSets, TLC

\* ---------------------------------------------------------------- bounds
\* Largest number of products handed to one batch sync.
MaxProducts == 2
\* Largest chunkSize option tried.
MaxChunkSize == 2
\* Largest maxRetries option tried.
MaxRetries == 2
\* Number of webhook deliveries in one run.
MaxDeliveries == 2
\* Number of persistence calls that fail in one run.
MaxFailures == 1
\* Largest initial stock of a product.
MaxStock == 2
\* Largest quantity of a line item.
MaxQty == 2

\* ------------------------------------------------------------- helpers
Null == "null"

Min(a, b) == IF a < b THEN a ELSE b

Max(a, b) == IF a > b THEN a ELSE b

RECURSIVE Count(_, _)
\* Number of entries of sequence s equal to x.
Count(s, x) ==
  IF s = <<>> THEN 0
  ELSE (IF Head(s) = x THEN 1 ELSE 0) + Count(Tail(s), x)

\* Number of entries of the failed list that belong to product p.
RECURSIVE CountFailed(_, _)
CountFailed(s, p) ==
  IF s = <<>> THEN 0
  ELSE (IF Head(s).sku = p THEN 1 ELSE 0) + CountFailed(Tail(s), p)

VARIABLES
  \* ---- outbound batch sync
  syncEnabled,   \* isWooCommerceSyncEnabled(): SYNC_TO_WOOCOMMERCE, URL and key set
  posProducts,   \* the products handed to the batch sync (their SKUs)
  chunkSize,     \* options.chunkSize
  maxRetries,    \* options.maxRetries
  results,       \* {success: [], failed: [], total}
  chunkIndex,    \* index of the chunk being processed (0-based, as in the code)
  retryCount,    \* let retryCount
  success,       \* let success
  syncPc,        \* position of the sync-all request
  loggedChunk,   \* the chunk the last request was sent for (-1: none sent yet)
  attempts,      \* number of requests sent for chunk loggedChunk
  lastOutcome,   \* how the last request sent ended (an error, or OkOutcome)
  onlyTimeouts,  \* every request sent for chunk loggedChunk timed out
  onlyNoResponse, \* every request sent for chunk loggedChunk got no response
  lastResponse,  \* body of the last 2xx batch response (None: the request failed)
  inFlight,      \* chunk indexes of the requests sent and not yet settled
  delays,        \* the delays slept since the first request of the current chunk
  pushed,        \* chunks pushed so far by the loop that splits the products
  syncResult,    \* what syncProductsToWooCommerce returned
  statusCode     \* HTTP status answered by the sync-all endpoint (0: none yet)

VARIABLES
  \* ---- inbound order webhooks
  orders,        \* the WooCommerceOrder collection: a set of documents
  products,      \* the Product collection: sku -> document
  customers,     \* the Customer collection, in creation order
  handlers,      \* the receiveOrderWebhook calls in progress, by slot
  deliveries,    \* number of webhook requests received so far
  failures,      \* number of persistence calls that failed so far
  latest,        \* per external order id, the most recent delivery (SpecMerge)
  history,       \* the requests received, each with the collections it found
  expectedApiKey \* process.env.WEBHOOK_API_KEY

VARIABLES
  \* ---- product create, update and delete with their outbound sync
  localProduct,  \* the Product document the requests are about (None: no document)
  request,       \* the createProduct/updateProduct/deleteProduct call in progress
  remote,        \* the syncProductToWooCommerce call started by the last request
  events         \* what the requests did, in order

crudVars == <<localProduct, request, remote, events>>

VARIABLES
  \* ---- sync status endpoint
  env,            \* process.env of two servers that are compared
  statusResponse  \* what GET /api/woocommerce/status answered on each (None: not asked)

statusVars == <<env, statusResponse>>

webhookVars == <<orders, products, customers, handlers, deliveries, failures, latest,
                 history, expectedApiKey>>

syncVars == <<syncEnabled, posProducts, chunkSize, maxRetries, results, chunkIndex,
              retryCount, success, syncPc, loggedChunk, attempts, lastOutcome,
              onlyTimeouts, onlyNoResponse, lastResponse, inFlight, delays,
              pushed, syncResult, statusCode>>

vars == <<syncVars, webhookVars, crudVars, statusVars>>

\* An optional value: None when the property is absent (undefined).
None == <<>>

Some(x) == <<x>>

\* ------------------------------------------------------------ batch sync

\* for (let i = 0; i < posProducts.length; i += chunkSize)
\*   chunks.push(posProducts.slice(i, i + chunkSize));      (i is 0-based)
RECURSIVE SplitChunks(_, _, _)
SplitChunks(list, i, size) ==
  IF i < Len(list)
  THEN <<SubSeq(list, i + 1, Min(i + size, Len(list)))>>
         \o SplitChunks(list, i + size, size)
  ELSE <<>>

chunks == SplitChunks(posProducts, 0, chunkSize)

\* chunks[chunkIndex] of the code (TLA+ sequences are 1-based).
ChunkAt(k) == chunks[k + 1]

\* A message of the platform, as its words in order.
\* message.includes(word)
includes(message, word) == \E i \in 1..Len(message) : message[i] = word

\* message.match(/SKU \(([^)]+)\)/): the leftmost "SKU (" that is followed by
\* at least one word other than ")" and then by ")"; the value is the captured
\* words, or None when there is no match.
skuMatch(message) ==
  LET starts == {i \in 1..Len(message) :
                   /\ i + 3 <= Len(message)
                   /\ message[i] = "SKU" /\ message[i + 1] = "("
                   /\ message[i + 2] # ")"
                   /\ \E j \in (i + 3)..Len(message) : message[j] = ")"}
  IN IF starts = {} THEN None
     ELSE LET i == CHOOSE k \in starts : \A m \in starts : k <= m
              j == CHOOSE k \in (i + 3)..Len(message) :
                     /\ message[k] = ")"
                     /\ \A m \in (i + 3)..(k - 1) : message[m] # ")"
          IN Some(SubSeq(message, i + 2, j - 1))

\* item.error: absent, or an error with a code (possibly empty) and, under
\* data.error, the WordPress error with its message.
NoItemError == [given |-> FALSE, code |-> "", wpError |-> None]

ItemError(code, wpError) == [given |-> TRUE, code |-> code, wpError |-> wpError]

\* One item of the response array: null, or an object whose success property
\* is true, false or absent.
NullItem == [isObject |-> FALSE, success |-> "absent", error |-> NoItemError]

ResultItem(indicator, err) == [isObject |-> TRUE, success |-> indicator, error |-> err]

OkItem == ResultItem("true", NoItemError)

FailedItem == ResultItem("false", NoItemError)

\* What the plugin reports for one item of a batch: an item whose success
\* indicator is not false, or one whose success is false.
ItemResults == {OkItem, FailedItem}

\* if (item && item.success !== false)
ItemSucceeded(item) == item.isObject /\ item.success # "false"

\* An error that leaves the platform's error as it is.
ParsedErrorUnclassified(item) ==
  [error |-> IF item.error.given THEN "item_error" ELSE "Unknown error",
   conflictingSku |-> None]

\* let parsedError = item?.error || 'Unknown error'; if (item?.error?.data?.error)
\* {...}: the code of the error recorded for a failed item and, for a SKU
\* conflict, the SKU its message names.
ParsedError(item) ==
  IF ~item.error.given THEN [error |-> "Unknown error", conflictingSku |-> None]
  ELSE IF item.error.wpError = None
  THEN [error |-> "item_error", conflictingSku |-> None]
  ELSE LET message == item.error.wpError[1] IN
       IF includes(message, "SKU") /\ includes(message, "already present")
       THEN [error |-> "sku_conflict",
             conflictingSku |-> IF skuMatch(message) # None THEN skuMatch(message)
                                ELSE Some(<<"unknown">>)]
       ELSE [error |-> IF item.error.code # "" THEN item.error.code
                       ELSE "wordpress_error",
             conflictingSku |-> None]

\* A response body that is not an array ({}, a string, nothing).
NonArray == [isArray |-> FALSE, items |-> <<>>]

\* HTTP statuses an error response may carry.
ErrorStatuses == {401, 403, 404, 500, 502, 503}

\* The errors axios.post can reject with: a timeout (code ECONNABORTED), a
\* network failure without response, or a response with an error status; a 500
\* may carry the WordPress "SKU (...) already present" message.
Errors ==
  {[code |-> "ECONNABORTED", status |-> 0, skuConflict |-> FALSE],
   [code |-> "ECONNREFUSED", status |-> 0, skuConflict |-> FALSE]}
  \cup {[code |-> "ERR_BAD_RESPONSE", status |-> s, skuConflict |-> FALSE] :
           s \in ErrorStatuses}
  \cup {[code |-> "ERR_BAD_RESPONSE", status |-> 500, skuConflict |-> TRUE]}

\* The TypeError thrown inside the try block by chunk[index].name when the
\* response array is longer than the chunk.
TypeError == [code |-> "TypeError", status |-> 0, skuConflict |-> FALSE]

\* The words of the message WordPress gives for a duplicate SKU, of a message
\* about a duplicate SKU that does not put the SKU in parentheses, and of a
\* message about something else.
SkuConflictMessage == <<"The product with", "SKU", "(", "082831", ")", "already present">>

UnnamedConflictMessage == <<"SKU", "082831", "already present">>

OtherMessage == <<"Invalid", "price">>

\* The items a per-item result array is made of: succeeded (success true or
\* absent, with or without an error), null, and failed with each kind of error.
BatchItems ==
  {OkItem, ResultItem("absent", NoItemError), NullItem, FailedItem,
   ResultItem("true", ItemError("internal_server_error", Some(SkuConflictMessage))),
   ResultItem("false", ItemError("woocommerce_rest_error", None)),
   ResultItem("false", ItemError("internal_server_error", Some(SkuConflictMessage))),
   ResultItem("false", ItemError("internal_server_error", Some(UnnamedConflictMessage))),
   ResultItem("false", ItemError("", Some(OtherMessage)))}

\* The arrays of at most Len(chunk) items drawn from `items`.
ResponseArraysOf(chunk, items) ==
  {[isArray |-> TRUE, items |-> a] :
     a \in UNION {[1..n -> items] : n \in 0..Len(chunk)}}

\* Response bodies that are arrays: every array of at most Len(chunk) items,
\* and the array of Len(chunk) + 1 items that all report success.
ResponseArrays(chunk) ==
  ResponseArraysOf(chunk, ItemResults)
  \cup {[isArray |-> TRUE, items |-> [i \in 1..(Len(chunk) + 1) |-> OkItem]]}

isTimeout(error) == error.code = "ECONNABORTED"

isAuthError(error) == error.status = 401 \/ error.status = 403

isServerError(error) == error.status = 500

\* The error recorded for every product of a chunk rejected with 401/403.
AuthenticationError == "authentication_error"

\* const finalError = isServerError ? {...} : (isTimeout ? '...' : errorData || errorMessage)
finalError(error) ==
  IF isServerError(error)
  THEN (IF error.skuConflict THEN "sku_conflict" ELSE "wordpress_server_error")
  ELSE IF isTimeout(error) THEN "request_timeout"
  ELSE IF error.status # 0 THEN "response_data"
  ELSE "empty_object"

\* chunk.forEach(product => results.failed.push({sku, error}))
RECURSIVE PushFailed(_, _, _)
PushFailed(res, chunk, err) ==
  IF chunk = <<>> THEN res
  ELSE PushFailed([res EXCEPT !.failed = Append(@, [sku |-> Head(chunk), error |-> err])],
                  Tail(chunk), err)

\* chunk.forEach(product => results.success.push({sku}))
RECURSIVE PushSuccess(_, _)
PushSuccess(res, chunk) ==
  IF chunk = <<>> THEN res
  ELSE PushSuccess([res EXCEPT !.success = Append(@, Head(chunk))], Tail(chunk))

\* responseData.forEach((item, index) => ...): item index is recorded under
\* chunk[index]; chunk[index].name throws when index is past the chunk.
RECURSIVE ForEachItem(_, _, _, _)
ForEachItem(responseData, chunk, index, res) ==
  IF index > Len(responseData) THEN [results |-> res, thrown |-> FALSE]
  ELSE IF index > Len(chunk) THEN [results |-> res, thrown |-> TRUE]
  ELSE IF ItemSucceeded(responseData[index])
  THEN ForEachItem(responseData, chunk, index + 1,
                   [res EXCEPT !.success = Append(@, chunk[index])])
  ELSE ForEachItem(responseData, chunk, index + 1,
                   [res EXCEPT !.failed =
                      Append(@, [sku |-> chunk[index],
                                 error |-> ParsedError(responseData[index]).error,
                                 conflictingSku |->
                                   ParsedError(responseData[index]).conflictingSku])])

\* if (responseData && Array.isArray(responseData)) {...} else {all succeeded}
TrackResponse(responseData, chunk, res) ==
  IF ~responseData.isArray
  THEN [results |-> PushSuccess(res, chunk), thrown |-> FALSE]
  ELSE ForEachItem(responseData.items, chunk, 1, res)

\* SYNC_CONFIG.retryDelay: parseInt(process.env.WOOCOMMERCE_SYNC_RETRY_DELAY) || 2000
retryDelay == 2000

\* Math.pow(2, n)
RECURSIVE pow2(_)
pow2(n) == IF n <= 0 THEN 1 ELSE 2 * pow2(n - 1)

\* A delay that is the same before every retry.
BackoffConstant(base, count) == base

\* const delay = retryDelay * Math.pow(2, retryCount - 1)
Backoff(base, count) == base * pow2(count - 1)

\* if (isAuthError && retryCount === 1): the chunk is aborted without retry.
AbortsOnAuthError(error, count) == isAuthError(error) /\ count = 1

\* A give-up test that ends the chunk on exhaustion only, not on a server error.
GivesUpOnExhaustionOnly(error, count) == count > maxRetries

\* if (retryCount > maxRetries || isServerError): the chunk is recorded failed.
GivesUp(error, count) == count > maxRetries \/ isServerError(error)

\* The catch block: the state of the loop after `error` was caught with the
\* results as `res`. retryCount is already incremented in `count`.
CatchBlock(error, res, chunk, count) ==
  IF AbortsOnAuthError(error, count)
  THEN [results |-> PushFailed(res, chunk, AuthenticationError), break |-> TRUE,
        delay |-> None]
  ELSE IF GivesUp(error, count)
  THEN [results |-> PushFailed(res, chunk, finalError(error)),
        break |-> isServerError(error), delay |-> None]
  ELSE [results |-> res, break |-> FALSE, delay |-> Some(Backoff(retryDelay, count))]

\* A loop test that is off by one: the last retry is never made.
LoopContinuesOffByOne(count, ok, break) == count < maxRetries /\ ~ok /\ ~break

\* while (retryCount <= maxRetries && !success)
LoopContinues(count, ok, break) == count <= maxRetries /\ ~ok /\ ~break

\* An iteration end at which a chunk aborted by break ends the whole batch.
AfterIterationAborting(res, count, ok, break) ==
  /\ results' = res
  /\ IF LoopContinues(count, ok, break)
     THEN /\ retryCount' = count
          /\ success' = ok
          /\ syncPc' = "attempt"
          /\ UNCHANGED chunkIndex
     ELSE /\ retryCount' = 0
          /\ success' = FALSE
          /\ chunkIndex' = chunkIndex + 1
          /\ syncPc' = IF chunkIndex + 1 < Len(chunks) /\ ~break THEN "attempt" ELSE "return"

\* The end of one loop iteration: stay on the chunk, or go to the next one
\* (let retryCount = 0; let success = false), or leave the for loop.
AfterIteration(res, count, ok, break) ==
  /\ results' = res
  /\ IF LoopContinues(count, ok, break)
     THEN /\ retryCount' = count
          /\ success' = ok
          /\ syncPc' = "attempt"
          /\ UNCHANGED chunkIndex
     ELSE /\ retryCount' = 0
          /\ success' = FALSE
          /\ chunkIndex' = chunkIndex + 1
          /\ syncPc' = IF chunkIndex + 1 < Len(chunks) THEN "attempt" ELSE "return"

\* A request answered with a 2xx response whose handling threw nothing.
OkOutcome == [code |-> "OK", status |-> 200, skuConflict |-> FALSE]

\* No request sent yet.
NoOutcome == [code |-> "none", status |-> 0, skuConflict |-> FALSE]

\* await new Promise(resolve => setTimeout(resolve, delay)), when the catch
\* block came to it.
Sleep(delay) ==
  delays' = IF delay = None THEN delays ELSE Append(delays, delay[1])

\* Bookkeeping of the requests sent for a chunk.
LogAttempt(outcome) ==
  /\ attempts' = IF loggedChunk = chunkIndex THEN attempts + 1 ELSE 1
  /\ lastOutcome' = outcome
  /\ onlyTimeouts' = /\ isTimeout(outcome)
                     /\ (loggedChunk = chunkIndex => onlyTimeouts)
  /\ onlyNoResponse' = /\ outcome.code = "ECONNREFUSED"
                       /\ (loggedChunk = chunkIndex => onlyNoResponse)
  /\ loggedChunk' = chunkIndex

\* A loop that sends the request of a chunk and goes on to the next chunk
\* with the request still pending.
PostWithoutAwait ==
  /\ syncPc = "attempt"
  /\ Len(inFlight) < MaxProducts
  /\ inFlight' = Append(inFlight, chunkIndex)
  /\ delays' = IF retryCount = 0 THEN <<>> ELSE delays
  /\ chunkIndex' = IF chunkIndex + 1 < Len(chunks) THEN chunkIndex + 1 ELSE chunkIndex
  /\ syncPc' = IF chunkIndex + 1 < Len(chunks) THEN "attempt" ELSE "await"
  /\ UNCHANGED <<syncEnabled, posProducts, chunkSize, maxRetries, pushed, results, retryCount,
                 success, loggedChunk, attempts, lastOutcome, onlyTimeouts, onlyNoResponse,
                 lastResponse, syncResult, statusCode>>
  /\ UNCHANGED <<webhookVars, crudVars, statusVars>>

\* const response = await axios.post(syncUrl, wcProducts, ...): the request of
\* the current chunk is sent and the loop waits for it to settle.
Post ==
  /\ syncPc = "attempt"
  /\ inFlight' = Append(inFlight, chunkIndex)
  /\ delays' = IF retryCount = 0 THEN <<>> ELSE delays
  /\ syncPc' = "await"
  /\ UNCHANGED <<syncEnabled, posProducts, chunkSize, maxRetries, pushed, results, chunkIndex,
                 retryCount, success, loggedChunk, attempts, lastOutcome, onlyTimeouts,
                 onlyNoResponse, lastResponse, syncResult, statusCode>>
  /\ UNCHANGED <<webhookVars, crudVars, statusVars>>

\* An attempt whose response handling is outside the try block: what it
\* throws ends the call with no result.
RespondUncaught(responseData) ==
  /\ syncPc = "await"
  /\ LET chunk == ChunkAt(chunkIndex)
         t == TrackResponse(responseData, chunk, results)
     IN IF t.thrown
        THEN /\ results' = t.results
             /\ syncPc' = "respond"
             /\ UNCHANGED <<chunkIndex, retryCount, success>>
             /\ LogAttempt(TypeError)
        ELSE /\ AfterIteration(t.results, retryCount, TRUE, FALSE)
             /\ LogAttempt(OkOutcome)
  /\ UNCHANGED delays
  /\ lastResponse' = Some(responseData)
  /\ inFlight' = Tail(inFlight)
  /\ UNCHANGED <<syncEnabled, posProducts, chunkSize, maxRetries, pushed, syncResult, statusCode>>
  /\ UNCHANGED <<webhookVars, crudVars, statusVars>>

\* One iteration of the retry loop whose request is answered with a 2xx
\* response carrying responseData.
Respond(responseData) ==
  /\ syncPc = "await"
  /\ LET chunk == ChunkAt(chunkIndex)
         t == TrackResponse(responseData, chunk, results)
         c == CatchBlock(TypeError, t.results, chunk, retryCount + 1)
     IN IF t.thrown
        THEN /\ AfterIteration(c.results, retryCount + 1, FALSE, c.break)
             /\ LogAttempt(TypeError)
             /\ Sleep(c.delay)
        ELSE /\ AfterIteration(t.results, retryCount, TRUE, FALSE)
             /\ LogAttempt(OkOutcome)
             /\ UNCHANGED delays
  /\ lastResponse' = Some(responseData)
  /\ inFlight' = Tail(inFlight)
  /\ UNCHANGED <<syncEnabled, posProducts, chunkSize, maxRetries, pushed, syncResult, statusCode>>
  /\ UNCHANGED <<webhookVars, crudVars, statusVars>>

AttemptResponse ==
  /\ syncPc = "await"
  /\ \E responseData \in ResponseArrays(ChunkAt(chunkIndex)) \cup {NonArray} :
       Respond(responseData)

\* A 2xx response that carries a per-item result array.
AttemptItemResults ==
  /\ syncPc = "await"
  /\ \E responseData \in ResponseArraysOf(ChunkAt(chunkIndex), BatchItems) :
       Respond(responseData)

\* One iteration of the retry loop whose request is rejected.
AttemptError ==
  /\ syncPc = "await"
  /\ \E error \in Errors :
       LET chunk == ChunkAt(chunkIndex)
           c == CatchBlock(error, results, chunk, retryCount + 1)
       IN /\ AfterIteration(c.results, retryCount + 1, FALSE, c.break)
          /\ LogAttempt(error)
          /\ Sleep(c.delay)
  /\ lastResponse' = None
  /\ inFlight' = Tail(inFlight)
  /\ UNCHANGED <<syncEnabled, posProducts, chunkSize, maxRetries, pushed, syncResult, statusCode>>
  /\ UNCHANGED <<webhookVars, crudVars, statusVars>>

\* No call of syncProductsToWooCommerce has returned yet.
NoResult == [success |-> FALSE, message |-> "none", error |-> Null]

\* The object syncProductsToWooCommerce returns.
ReturnValue(res) ==
  IF Len(res.failed) = 0
  THEN [success |-> TRUE, message |-> "Successfully synced", error |-> Null]
  ELSE IF Len(res.success) = 0
  THEN [success |-> FALSE, message |-> "Failed to sync all",
        error |-> "All products failed to sync"]
  ELSE [success |-> TRUE, message |-> "Synced, failed", error |-> Null]

SyncReturn ==
  /\ syncPc = "return"
  /\ syncResult' = ReturnValue(results)
  /\ syncPc' = "respond"
  /\ UNCHANGED <<syncEnabled, posProducts, chunkSize, maxRetries, pushed, results, chunkIndex,
                 retryCount, success, loggedChunk, attempts, lastOutcome, onlyTimeouts, onlyNoResponse,
                 lastResponse, inFlight, delays, statusCode>>
  /\ UNCHANGED <<webhookVars, crudVars, statusVars>>

\* syncAllProducts up to the call of syncProductsToWooCommerce, and the start
\* of that call.
SyncAllBegin ==
  /\ syncPc = "request"
  /\ IF ~syncEnabled
     THEN /\ statusCode' = 400
          /\ syncPc' = "done"
          /\ UNCHANGED results
     ELSE IF Len(posProducts) = 0
     THEN /\ statusCode' = 200
          /\ syncPc' = "done"
          /\ UNCHANGED results
     ELSE /\ results' = [success |-> <<>>, failed |-> <<>>, total |-> Len(posProducts)]
          /\ syncPc' = "attempt"
          /\ UNCHANGED statusCode
  /\ UNCHANGED <<syncEnabled, posProducts, chunkSize, maxRetries, pushed, chunkIndex, retryCount,
                 success, loggedChunk, attempts, lastOutcome, onlyTimeouts, onlyNoResponse, lastResponse,
                 inFlight, delays, syncResult>>
  /\ UNCHANGED <<webhookVars, crudVars, statusVars>>

\* const chunkSize = parseInt(req.query.chunkSize) || 20
DefaultChunkSize == 20

ChunkSizeOf(query) == IF query = 0 THEN DefaultChunkSize ELSE query

\* syncAllProducts up to the call of syncProductsToWooCommerce, and that call
\* up to its loop that splits the products into chunks.
SyncAllBeginSplitting ==
  /\ syncPc = "request"
  /\ IF ~syncEnabled
     THEN /\ statusCode' = 400
          /\ syncPc' = "done"
          /\ UNCHANGED results
     ELSE IF Len(posProducts) = 0
     THEN /\ statusCode' = 200
          /\ syncPc' = "done"
          /\ UNCHANGED results
     ELSE /\ results' = [success |-> <<>>, failed |-> <<>>, total |-> Len(posProducts)]
          /\ syncPc' = "split"
          /\ UNCHANGED statusCode
  /\ UNCHANGED <<syncEnabled, posProducts, chunkSize, maxRetries, pushed, chunkIndex,
                 retryCount, success, loggedChunk, attempts, lastOutcome, onlyTimeouts,
                 onlyNoResponse, lastResponse, inFlight, delays, syncResult>>
  /\ UNCHANGED <<webhookVars, crudVars, statusVars>>

\* for (let i = 0; i < posProducts.length; i += chunkSize) chunks.push(...):
\* one turn of the loop, i being chunkSize times the number of turns made. The
\* turns are followed until one more chunk than there are products is pushed.
Push ==
  /\ syncPc = "split"
  /\ IF pushed * chunkSize < Len(posProducts)
     THEN /\ pushed <= Len(posProducts)
          /\ pushed' = pushed + 1
          /\ UNCHANGED syncPc
     ELSE /\ syncPc' = "attempt"
          /\ UNCHANGED pushed
  /\ UNCHANGED <<syncEnabled, posProducts, chunkSize, maxRetries, results, chunkIndex,
                 retryCount, success, loggedChunk, attempts, lastOutcome, onlyTimeouts,
                 onlyNoResponse, lastResponse, inFlight, delays, syncResult, statusCode>>
  /\ UNCHANGED <<webhookVars, crudVars, statusVars>>

\* The status syncAllProducts answers with for a returned result.
ResponseStatus(result, res, n) ==
  IF result.success = FALSE /\ Len(res.failed) = n THEN 500
  ELSE IF result.success = FALSE THEN 207
  ELSE 200

SyncAllRespond ==
  /\ syncPc = "respond"
  /\ statusCode' = ResponseStatus(syncResult, results, Len(posProducts))
  /\ syncPc' = "done"
  /\ UNCHANGED <<syncEnabled, posProducts, chunkSize, maxRetries, pushed, results, chunkIndex,
                 retryCount, success, loggedChunk, attempts, lastOutcome, onlyTimeouts, onlyNoResponse,
                 lastResponse, inFlight, delays, syncResult>>
  /\ UNCHANGED <<webhookVars, crudVars, statusVars>>

\* ------------------------------------------------- order webhooks: data

OrderIds == {1, 2}

Skus == {"A"}

Handlers == {1, 2}

OrderCreated == "order.created"

OrderStatusChanged == "order.status_changed"

\* enum of wooCommerceOrderSchema.event_type
EventTypes == {OrderCreated, OrderStatusChanged}

NoData ==
  [id |-> 0, status |-> "", status_change |-> None, line_items |-> None,
   total |-> None, payment_method |-> "", billing |-> None]

NoDoc ==
  [_id |-> 0, wc_order_id |-> 0, status |-> "", payment_method |-> "", total |-> None,
   line_items |-> <<>>, billing |-> None, event_type |-> "",
   status_changes |-> <<>>, processed |-> FALSE, processing_error |-> ""]

NoProduct == [sku |-> "", stock |-> 0, stockStatus |-> "", lowStockThreshold |-> None]

NoResponse == [status |-> 0, success |-> FALSE]

IdleHandler ==
  [pc |-> "idle", event |-> "", hasData |-> FALSE, data |-> NoData, doc |-> NoDoc,
   isNew |-> FALSE, dirty |-> {}, pushes |-> <<>>, idx |-> 0, found |-> NoProduct,
   response |-> NoResponse]

\* The handler has answered: only what it was asked and what it answered is kept.
Responded(h, status, ok) ==
  [IdleHandler EXCEPT !.pc = "done", !.event = h.event, !.hasData = h.hasData,
                      !.response = [status |-> status, success |-> ok]]

\* JavaScript truthiness of the two envelope fields: an absent, null or empty
\* event and an absent or null data are all falsy.
Missing(body) == body.event = "" \/ body.data = None

\* ----------------------------------------- order webhooks: the order record
\* The paths of an order document that save() tracks for modification.
OrderPaths ==
  {"status", "payment_method", "total", "line_items", "billing", "event_type",
   "processed", "processing_error"}

\* The existing-order branch: what the handler assigns to the document it read.
UpdateExisting(existing, event, data) ==
  [existing EXCEPT
     !.status_changes = IF data.status_change # None
                        THEN Append(@, data.status_change[1]) ELSE @,
     !.status = data.status,
     !.event_type = event,
     !.line_items = IF data.line_items # None THEN data.line_items[1] ELSE @,
     !.billing = IF data.billing # None THEN data.billing ELSE @,
     !.total = IF data.total # None /\ data.total[1] # 0 THEN data.total ELSE @]

\* The new-order branch: orderData.
NewOrder(oid, event, data) ==
  [_id |-> oid, wc_order_id |-> data.id, status |-> data.status,
   payment_method |-> data.payment_method, total |-> data.total,
   line_items |-> IF data.line_items # None THEN data.line_items[1] ELSE <<>>,
   billing |-> data.billing, event_type |-> event,
   status_changes |-> IF data.status_change # None
                      THEN <<data.status_change[1]>> ELSE <<>>,
   processed |-> FALSE, processing_error |-> ""]

\* Schema validation run by save(): required paths and the event_type enum.
ValidOrder(doc) ==
  /\ doc.wc_order_id # 0
  /\ doc.status # ""
  /\ doc.total # None
  /\ doc.event_type \in EventTypes

\* The paths of the local document that differ from the document as read.
DirtyPaths(read, local) == {f \in OrderPaths : local[f] # read[f]}

\* A save() that writes the array as the entries just pushed, not as a push
\* onto what is stored.
PersistReplacingHistory(stored, local, dirty, pushes) ==
  [stored EXCEPT
     !.status = IF "status" \in dirty THEN local.status ELSE @,
     !.event_type = IF "event_type" \in dirty THEN local.event_type ELSE @,
     !.processed = IF "processed" \in dirty THEN local.processed ELSE @,
     !.status_changes = pushes]

\* save() of a document that was read: $set of the modified paths, $push of the
\* array elements pushed since it was read.
Persist(stored, local, dirty, pushes) ==
  LET Set(f) == IF f \in dirty THEN local[f] ELSE stored[f]
  IN [stored EXCEPT
        !.status = Set("status"),
        !.payment_method = Set("payment_method"),
        !.total = Set("total"),
        !.line_items = Set("line_items"),
        !.billing = Set("billing"),
        !.event_type = Set("event_type"),
        !.processed = Set("processed"),
        !.processing_error = Set("processing_error"),
        !.status_changes = @ \o pushes]

StoredOrders(id) == {o \in orders : o.wc_order_id = id}

\* findOne({wc_order_id}): some matching document, or None.
FindOrder(id) == IF StoredOrders(id) = {} THEN None ELSE Some(CHOOSE o \in StoredOrders(id) : TRUE)

\* The unique index on wc_order_id rejects a second document with the same id.
UniqueIndexAllows(doc) == StoredOrders(doc.wc_order_id) = {}

\* The collection after a successful save() of handler record h.
SavedOrders(h) ==
  IF h.isNew THEN orders \cup {h.doc}
  ELSE {IF o._id = h.doc._id THEN Persist(o, h.doc, h.dirty, h.pushes) ELSE o : o \in orders}

\* ------------------------------------------- order webhooks: inventory
\* a < b in JavaScript where b may be undefined: false when it is.
LessThan(a, b) == b # None /\ a < b[1]

GreaterThan(a, b) == b # None /\ a > b[1]

\* A decrement that is not clamped at zero.
DecrementUnclamped(product, quantity) ==
  [product EXCEPT !.stock = @ - quantity]

\* updateInventoryFromOrder: the product after the decrement, before save().
DecrementStock(product, quantity) ==
  LET newStock == Max(0, product.stock - quantity)
  IN [product EXCEPT
        !.stock = newStock,
        !.stockStatus = IF newStock = 0 THEN "out-of-stock"
                        ELSE IF LessThan(newStock, product.lowStockThreshold)
                             THEN "low-stock" ELSE @]

\* handleOrderCancelled: the product after the restock, before save().
RestoreStock(product, quantity) ==
  LET stock == product.stock + quantity
  IN [product EXCEPT
        !.stock = stock,
        !.stockStatus = IF GreaterThan(stock, product.lowStockThreshold) THEN "in-stock"
                        ELSE IF stock > 0 THEN "low-stock" ELSE @]

\* productSchema.stock: min 0.
ValidProduct(product) == product.stock >= 0

\* Product.js declares neither stockStatus nor lowStockThreshold: under that
\* schema the threshold reads undefined and the assigned status is not stored.
StoresStatus(product) == product.lowStockThreshold # None

\* save() of a product that was read: the modified paths are written.
PersistProduct(stored, read, local) ==
  [stored EXCEPT
     !.stock = IF local.stock # read.stock THEN local.stock ELSE @,
     !.stockStatus = IF StoresStatus(stored) /\ local.stockStatus # read.stockStatus
                     THEN local.stockStatus ELSE @]

\* The stock status of the integration guide ("Stock Status Logic").
StockStatusOf(stock, threshold) ==
  IF stock = 0 THEN "out-of-stock"
  ELSE IF stock < threshold THEN "low-stock"
  ELSE "in-stock"

\* Does this delivery take stock out (order.created) or put it back?
Restocks(h) == h.event = OrderStatusChanged

StockUpdate(h, product, quantity) ==
  IF Restocks(h) THEN RestoreStock(product, quantity) ELSE DecrementStock(product, quantity)

\* `${first_name} ${last_name}`.trim(): an absent part renders as "undefined".
Template(x) == IF x = "" THEN "undefined" ELSE x

CustomerFromOrder(doc) ==
  [email |-> doc.billing[1].email,
   name |-> <<Template(doc.billing[1].first_name), Template(doc.billing[1].last_name)>>,
   source |-> "woocommerce", order |-> doc.wc_order_id]

\* --------------------------------------- order webhooks: the handler steps
\* A persistence call may fail (connection lost, timeout).
CanFail == failures < MaxFailures

Failed == failures' = failures + 1

RECURSIVE NextItem(_, _)
\* The index of the first line item at or after i that has a SKU
\* (`if (!item.sku) continue`), or Len + 1 when the loop is over.
NextItem(items, i) ==
  IF i > Len(items) THEN i
  ELSE IF items[i].sku = "" THEN NextItem(items, i + 1)
  ELSE i

\* syncCustomerFromOrder is entered only with a billing e-mail.
HasBillingEmail(doc) == doc.billing # None /\ doc.billing[1].email # ""

\* Where the handler goes once the line-item loop is over.
AfterItems(h) ==
  IF ~Restocks(h) /\ HasBillingEmail(h.doc) THEN [h EXCEPT !.pc = "findCustomer"]
  ELSE [h EXCEPT !.pc = "markProcessed"]

\* Continue the line-item loop of handler record h at index i.
LoopItems(h, i) ==
  LET j == NextItem(h.doc.line_items, i)
  IN IF j > Len(h.doc.line_items) THEN AfterItems([h EXCEPT !.idx = j])
     ELSE [h EXCEPT !.pc = "findProduct", !.idx = j]

\* A dispatch that restocks on every status change.
ProcessOrderWebhookRestocking(h) ==
  IF h.event \in EventTypes THEN LoopItems(h, 1) ELSE Responded(h, 200, TRUE)

\* A catch around the whole line-item loop: a failure ends the loop.
ItemCatchLeavingLoop(h) == AfterItems(h)

\* catch (error) { console.error(...) } inside the line-item loop: the failure
\* is logged and the loop goes on with the next item.
ItemCatch(h) == LoopItems(h, h.idx + 1)

\* processOrderWebhook, up to its first await.
ProcessOrderWebhook(h) ==
  IF h.event = OrderCreated THEN LoopItems(h, 1)
  ELSE IF h.event = OrderStatusChanged
       THEN IF h.doc.status \in {"cancelled", "refunded"} THEN LoopItems(h, 1)
            ELSE [h EXCEPT !.pc = "markProcessed"]
       ELSE Responded(h, 200, TRUE)

\* An outer catch that surfaces the error, as the comment beside it suggests
\* for a receiver whose sender should retry.
OuterCatchSurfacing(h) == Responded(h, 500, FALSE)

\* The outer catch of receiveOrderWebhook.
OuterCatch(h) == Responded(h, 200, FALSE)

Idle(h) == handlers[h].pc \in {"idle", "done"}

\* A request is taken by the first handler that is free.
FirstIdle(h) == Idle(h) /\ \A g \in Handlers : g < h => ~Idle(g)

\* receiveOrderWebhook from the arrival of the request to the answer of
\* WooCommerceOrder.findOne.
ReceiveBody(h, body) ==
  /\ FirstIdle(h)
  /\ deliveries < MaxDeliveries
  /\ deliveries' = deliveries + 1
  /\ LET req == [IdleHandler EXCEPT !.event = body.event, !.hasData = body.data # None]
     IN IF Missing(body)
        THEN /\ handlers' = [handlers EXCEPT ![h] = Responded(req, 400, FALSE)]
             /\ UNCHANGED failures
        ELSE LET data == body.data[1]
                 existingOrder == FindOrder(data.id)
                 started == [req EXCEPT !.data = data, !.pc = "saveOrder"]
             IN \/ /\ CanFail
                   /\ Failed
                   /\ handlers' = [handlers EXCEPT ![h] = OuterCatch(req)]
                \/ /\ UNCHANGED failures
                   /\ handlers' = [handlers EXCEPT ![h] =
                        IF existingOrder # None
                        THEN LET local == UpdateExisting(existingOrder[1], body.event, data)
                             IN [started EXCEPT
                                   !.doc = local,
                                   !.dirty = DirtyPaths(existingOrder[1], local),
                                   !.pushes = IF data.status_change # None
                                              THEN <<data.status_change[1]>> ELSE <<>>]
                        ELSE [started EXCEPT
                                !.doc = NewOrder(deliveries + 1, body.event, data),
                                !.isNew = TRUE]]
  /\ UNCHANGED <<orders, products, customers, expectedApiKey>>
  /\ UNCHANGED <<syncVars, crudVars, statusVars>>

\* A save of the order whose failure is logged and followed by the side
\* effects all the same.
SaveOrderBestEffort(h) ==
  LET hr == handlers[h]
      next == ProcessOrderWebhook([hr EXCEPT !.isNew = FALSE, !.dirty = {},
                                             !.pushes = <<>>, !.data = NoData])
  IN /\ hr.pc = "saveOrder"
     /\ handlers' = [handlers EXCEPT ![h] = next]
     /\ \/ /\ CanFail
           /\ Failed
           /\ UNCHANGED orders
        \/ /\ UNCHANGED failures
           /\ IF ValidOrder(hr.doc) /\ (hr.isNew => UniqueIndexAllows(hr.doc))
              THEN orders' = SavedOrders(hr)
              ELSE UNCHANGED orders
     /\ UNCHANGED <<products, customers, deliveries, latest, history, expectedApiKey>>
     /\ UNCHANGED <<syncVars, crudVars, statusVars>>

\* await existingOrder.save() / await newOrder.save(), then processOrderWebhook
\* up to its first await.
SaveOrder(h) ==
  LET hr == handlers[h]
  IN /\ hr.pc = "saveOrder"
     /\ \/ /\ CanFail
           /\ Failed
           /\ handlers' = [handlers EXCEPT ![h] = OuterCatch(hr)]
           /\ UNCHANGED orders
        \/ /\ UNCHANGED failures
           /\ IF ValidOrder(hr.doc) /\ (hr.isNew => UniqueIndexAllows(hr.doc))
              THEN /\ orders' = SavedOrders(hr)
                   /\ handlers' = [handlers EXCEPT ![h] =
                        ProcessOrderWebhook([hr EXCEPT !.isNew = FALSE, !.dirty = {},
                                                       !.pushes = <<>>, !.data = NoData])]
              ELSE /\ handlers' = [handlers EXCEPT ![h] = OuterCatch(hr)]
                   /\ UNCHANGED orders
     /\ UNCHANGED <<products, customers, deliveries, latest, history, expectedApiKey>>
     /\ UNCHANGED <<syncVars, crudVars, statusVars>>

\* await Product.findOne({ sku }) for the current line item.
FindProduct(h) ==
  LET hr == handlers[h]
      item == hr.doc.line_items[hr.idx]
  IN /\ hr.pc = "findProduct"
     /\ \/ /\ CanFail
           /\ Failed
           /\ handlers' = [handlers EXCEPT ![h] = ItemCatch(hr)]
        \/ /\ UNCHANGED failures
           /\ handlers' = [handlers EXCEPT ![h] =
                IF item.sku \in DOMAIN products
                THEN [hr EXCEPT !.pc = "saveProduct", !.found = products[item.sku]]
                ELSE LoopItems(hr, hr.idx + 1)]
     /\ UNCHANGED <<orders, products, customers, deliveries, latest, history, expectedApiKey>>
     /\ UNCHANGED <<syncVars, crudVars, statusVars>>

\* A stock update by $inc, as updateStock of productController.js
\* does it: no clamp at zero, and update validators are off.
SaveProductByIncrement(h) ==
  LET hr == handlers[h]
      item == hr.doc.line_items[hr.idx]
      delta == IF Restocks(hr) THEN item.quantity ELSE 0 - item.quantity
  IN /\ hr.pc = "saveProduct"
     /\ handlers' = [handlers EXCEPT ![h] = LoopItems(hr, hr.idx + 1)]
     /\ \/ /\ CanFail
           /\ Failed
           /\ UNCHANGED products
        \/ /\ UNCHANGED failures
           /\ products' = [products EXCEPT ![item.sku].stock = @ + delta]
     /\ UNCHANGED <<orders, customers, deliveries, latest, history, expectedApiKey>>
     /\ UNCHANGED <<syncVars, crudVars, statusVars>>

\* A save that applies the change to the stock stored at the time of the
\* save, not to the stock read before.
SaveProductRereading(h) ==
  LET hr == handlers[h]
      item == hr.doc.line_items[hr.idx]
      product == StockUpdate(hr, products[item.sku], item.quantity)
  IN /\ hr.pc = "saveProduct"
     /\ \/ /\ CanFail
           /\ Failed
           /\ handlers' = [handlers EXCEPT ![h] = ItemCatch(hr)]
           /\ UNCHANGED products
        \/ /\ UNCHANGED failures
           /\ handlers' = [handlers EXCEPT ![h] = LoopItems(hr, hr.idx + 1)]
           /\ IF ValidProduct(product)
              THEN products' = [products EXCEPT ![item.sku] = product]
              ELSE UNCHANGED products
     /\ UNCHANGED <<orders, customers, deliveries, latest, history, expectedApiKey>>
     /\ UNCHANGED <<syncVars, crudVars, statusVars>>

\* The stock assignment and await product.save() for the current line item.
SaveProduct(h) ==
  LET hr == handlers[h]
      item == hr.doc.line_items[hr.idx]
      product == StockUpdate(hr, hr.found, item.quantity)
  IN /\ hr.pc = "saveProduct"
     /\ \/ /\ CanFail
           /\ Failed
           /\ handlers' = [handlers EXCEPT ![h] = ItemCatch(hr)]
           /\ UNCHANGED products
        \/ /\ UNCHANGED failures
           /\ handlers' = [handlers EXCEPT ![h] = LoopItems(hr, hr.idx + 1)]
           /\ IF ValidProduct(product)
              THEN products' = [products EXCEPT ![item.sku] = PersistProduct(@, hr.found, product)]
              ELSE UNCHANGED products
     /\ UNCHANGED <<orders, customers, deliveries, latest, history, expectedApiKey>>
     /\ UNCHANGED <<syncVars, crudVars, statusVars>>

RECURSIVE HasEmail(_, _)
HasEmail(cs, email) ==
  IF cs = <<>> THEN FALSE
  ELSE Head(cs).email = email \/ HasEmail(Tail(cs), email)

\* await Customer.findOne({ email }).
FindCustomer(h) ==
  LET hr == handlers[h]
  IN /\ hr.pc = "findCustomer"
     /\ \/ /\ CanFail
           /\ Failed
           /\ handlers' = [handlers EXCEPT ![h] = [hr EXCEPT !.pc = "markProcessed"]]
        \/ /\ UNCHANGED failures
           /\ handlers' = [handlers EXCEPT ![h] =
                IF HasEmail(customers, hr.doc.billing[1].email)
                THEN [hr EXCEPT !.pc = "markProcessed"]
                ELSE [hr EXCEPT !.pc = "saveCustomer"]]
     /\ UNCHANGED <<orders, products, customers, deliveries, latest, history, expectedApiKey>>
     /\ UNCHANGED <<syncVars, crudVars, statusVars>>

\* A Customer collection without a key: every insert is accepted.
CustomerKeyAbsent(cs, email) == TRUE

\* The Customer collection is keyed by e-mail (exact match): an insert is
\* accepted when no stored customer has the e-mail.
CustomerKeyAllows(cs, email) == ~HasEmail(cs, email)

\* await customer.save() of the new customer; a save the collection rejects
\* throws into the catch of syncCustomerFromOrder, which logs it.
SaveCustomer(h) ==
  LET hr == handlers[h]
  IN /\ hr.pc = "saveCustomer"
     /\ handlers' = [handlers EXCEPT ![h] = [hr EXCEPT !.pc = "markProcessed"]]
     /\ \/ /\ CanFail
           /\ Failed
           /\ UNCHANGED customers
        \/ /\ UNCHANGED failures
           /\ customers' = IF CustomerKeyAllows(customers, hr.doc.billing[1].email)
                           THEN Append(customers, CustomerFromOrder(hr.doc))
                           ELSE customers
     /\ UNCHANGED <<orders, products, deliveries, latest, history, expectedApiKey>>
     /\ UNCHANGED <<syncVars, crudVars, statusVars>>

\* order.processed = true; await order.save(); on success the handler answers,
\* on failure processOrderWebhook's catch records the error on the document.
MarkProcessed(h) ==
  LET hr == handlers[h]
      marked == [hr EXCEPT !.doc.processed = TRUE, !.dirty = @ \cup {"processed"}]
  IN /\ hr.pc = "markProcessed"
     /\ \/ /\ CanFail
           /\ Failed
           /\ handlers' = [handlers EXCEPT ![h] =
                [marked EXCEPT !.pc = "saveError", !.doc.processing_error = "save failed",
                               !.dirty = @ \cup {"processing_error"}]]
           /\ UNCHANGED orders
        \/ /\ UNCHANGED failures
           /\ orders' = SavedOrders(marked)
           /\ handlers' = [handlers EXCEPT ![h] = Responded(hr, 200, TRUE)]
     /\ UNCHANGED <<products, customers, deliveries, latest, history, expectedApiKey>>
     /\ UNCHANGED <<syncVars, crudVars, statusVars>>

\* await order.save() in processOrderWebhook's catch; if it fails too, the
\* error reaches the outer catch of receiveOrderWebhook.
SaveError(h) ==
  LET hr == handlers[h]
  IN /\ hr.pc = "saveError"
     /\ \/ /\ CanFail
           /\ Failed
           /\ handlers' = [handlers EXCEPT ![h] = OuterCatch(hr)]
           /\ UNCHANGED orders
        \/ /\ UNCHANGED failures
           /\ orders' = SavedOrders(hr)
           /\ handlers' = [handlers EXCEPT ![h] = Responded(hr, 200, TRUE)]
     /\ UNCHANGED <<products, customers, deliveries, latest, history, expectedApiKey>>
     /\ UNCHANGED <<syncVars, crudVars, statusVars>>

\* ------------------------------------ order webhooks: requests and specs
Billing == [email |-> "a@shop.test", first_name |-> "Ann", last_name |-> ""]

Item(sku, quantity) == [sku |-> sku, quantity |-> quantity]

StatusChange(old, new) == [old_status |-> old, new_status |-> new]

\* Line items of the stock runs: one item of a known product, or an item
\* without SKU, an item of a product the POS does not know and a known one.
StockItemLists ==
  {<<Item("A", q)>> : q \in 1..MaxQty}
    \cup {<<Item("", 1), Item("X", 1), Item("A", 1)>>}

\* Order 1 is created with each of the item lists and later completed,
\* cancelled or refunded; order 2 carries a billing address; two envelopes
\* lack a field.
StockBodies ==
  {[event |-> OrderCreated,
    data |-> Some([NoData EXCEPT !.id = 1, !.status = "processing", !.total = Some(10),
                                 !.payment_method = "cod", !.line_items = Some(items)])] :
     items \in StockItemLists}
    \cup
  {[event |-> OrderCreated,
    data |-> Some([NoData EXCEPT !.id = 2, !.status = "processing", !.total = Some(10),
                                 !.payment_method = "cod",
                                 !.line_items = Some(<<Item("A", 1)>>),
                                 !.billing = Some(Billing)])]}
    \cup
  {[event |-> OrderStatusChanged,
    data |-> Some([NoData EXCEPT !.id = 1, !.status = status, !.total = Some(10),
                                 !.payment_method = "cod",
                                 !.status_change = Some(StatusChange("processing", status))])] :
     status \in {"completed", "cancelled", "refunded"}}
    \cup
  {[event |-> "", data |-> Some([NoData EXCEPT !.id = 1])],
   [event |-> OrderCreated, data |-> None]}

\* Deliveries of the merge runs: the same order delivered again with another
\* payment method and status.
MergeBodies ==
  {[event |-> OrderCreated,
    data |-> Some([NoData EXCEPT !.id = id, !.status = "pending", !.total = Some(10),
                                 !.payment_method = method,
                                 !.line_items = Some(<<Item("A", 1)>>),
                                 !.billing = Some(Billing)])] :
     <<id, method>> \in OrderIds \X {"cod", "card"}}
    \cup
  {[event |-> OrderStatusChanged,
    data |-> Some([NoData EXCEPT !.id = id, !.status = status, !.total = Some(10),
                                 !.payment_method = method,
                                 !.status_change = Some(StatusChange("pending", status))])] :
     <<id, method, status>> \in OrderIds \X {"cod", "card"} \X {"completed", "cancelled"}}

\* A request arrives while other requests may be in progress.
Receive(h) ==
  /\ \E body \in StockBodies : ReceiveBody(h, body)
  /\ UNCHANGED <<latest, history>>

\* order.created deliveries of two orders without line items, whose billing
\* block is absent, lacks the e-mail, or carries the same e-mail under one of
\* two names.
CustomerBodies ==
  {[event |-> OrderCreated,
    data |-> Some([NoData EXCEPT !.id = id, !.status = "processing", !.total = Some(10),
                                 !.payment_method = "cod", !.line_items = Some(<<>>),
                                 !.billing = billing])] :
     <<id, billing>> \in OrderIds \X {None, Some([Billing EXCEPT !.email = ""]),
                                       Some(Billing),
                                       Some([Billing EXCEPT !.first_name = "Bob"])}}

\* An order.created request arrives while other requests may be in progress.
ReceiveCreated(h) ==
  /\ \E body \in CustomerBodies : ReceiveBody(h, body)
  /\ UNCHANGED <<latest, history>>

\* A request arrives once the previous one has been answered.
ReceiveInTurn(h) ==
  /\ \A g \in Handlers : Idle(g)
  /\ \E body \in MergeBodies :
       /\ ReceiveBody(h, body)
       /\ latest' = [latest EXCEPT ![body.data[1].id] = Some(body)]
  /\ UNCHANGED history

\* ------------------------------------ order webhooks: authentication
\* A middleware that only looks for the header, not at its value.
PassesAnyKey(apiKey) == expectedApiKey = None \/ apiKey # None

\* A middleware that fails closed: without a configured key nothing passes
\* but a request that carries a key equal to it.
PassesConfiguredKeyOnly(apiKey) == apiKey # None /\ apiKey = expectedApiKey

\* validateWebhookApiKey calls next(): no key is configured, or the header is
\* present and equal to the configured key.
PassesApiKey(apiKey) ==
  IF expectedApiKey = None THEN TRUE
  ELSE IF apiKey = None THEN FALSE
  ELSE apiKey = expectedApiKey

\* The middleware answers 401 itself; receiveOrderWebhook is not called.
Unauthorized(h, body) ==
  /\ FirstIdle(h)
  /\ deliveries < MaxDeliveries
  /\ deliveries' = deliveries + 1
  /\ handlers' = [handlers EXCEPT ![h] =
       Responded([IdleHandler EXCEPT !.event = body.event, !.hasData = body.data # None],
                 401, FALSE)]
  /\ UNCHANGED <<orders, products, customers, failures, expectedApiKey>>
  /\ UNCHANGED <<syncVars, crudVars, statusVars>>

\* router.post('/orders', validateWebhookApiKey, receiveOrderWebhook)
PostOrders(h, apiKey, body) ==
  IF PassesApiKey(apiKey) THEN ReceiveBody(h, body) ELSE Unauthorized(h, body)

\* What is kept of a request: what it carried, the handler it went to, and the
\* collections as it found them.
Snapshot(h, apiKey, body) ==
  [slot |-> h, apiKey |-> apiKey, body |-> body,
   orders |-> orders, products |-> products, customers |-> customers,
   failures |-> failures]

ApiKeys == {None, Some("key"), Some("other")}

\* Requests of the authentication runs: an order with a line item and a
\* billing address, its cancellation, and an envelope without event.
AuthBodies ==
  {[event |-> OrderCreated,
    data |-> Some([NoData EXCEPT !.id = 1, !.status = "processing", !.total = Some(10),
                                 !.payment_method = "cod",
                                 !.line_items = Some(<<Item("A", 1)>>),
                                 !.billing = Some(Billing)])],
   [event |-> OrderStatusChanged,
    data |-> Some([NoData EXCEPT !.id = 1, !.status = "cancelled", !.total = Some(10),
                                 !.payment_method = "cod",
                                 !.status_change = Some(StatusChange("processing", "cancelled"))])],
   [event |-> "", data |-> Some([NoData EXCEPT !.id = 1])]}

\* A request with any X-API-Key header, or none, arrives once the previous
\* one has been answered.
PostOrdersInTurn(h) ==
  /\ \A g \in Handlers : Idle(g)
  /\ \E apiKey \in ApiKeys, body \in AuthBodies :
       /\ PostOrders(h, apiKey, body)
       /\ history' = Append(history, Snapshot(h, apiKey, body))
  /\ UNCHANGED latest

\* An event kind the receiver has no case for.
OrderUpdated == "order.updated"

\* Deliveries of the runs in which one request is handled after the other:
\* order 1 created with each of the item lists, or with a billing address
\* (with a first name, with a last name only, with no name), or again with a
\* total of 0 and another payment method; its status changed,
\* with and without an explicit transition; an event of another kind for an
\* order seen before and for a new one.
TurnBodies ==
  {[event |-> OrderCreated,
    data |-> Some([NoData EXCEPT !.id = 1, !.status = "processing", !.total = Some(10),
                                 !.payment_method = "cod", !.line_items = Some(items)])] :
     items \in StockItemLists \cup {<<Item("A", 1), Item("A", 1)>>}}
    \cup
  {[event |-> OrderCreated,
    data |-> Some([NoData EXCEPT !.id = 1, !.status = "pending", !.total = Some(total),
                                 !.payment_method = "card",
                                 !.line_items = Some(<<Item("A", 1)>>),
                                 !.billing = billing])] :
     <<total, billing>> \in {<<0, None>>, <<10, Some(Billing)>>,
                              <<10, Some([Billing EXCEPT !.first_name = "",
                                                         !.last_name = "Lee"])>>,
                              <<10, Some([Billing EXCEPT !.first_name = ""])>>}}
    \cup
  {[event |-> OrderStatusChanged,
    data |-> Some([NoData EXCEPT !.id = 1, !.status = status, !.total = Some(10),
                                 !.payment_method = "cod",
                                 !.status_change = Some(StatusChange("processing", status))])] :
     status \in {"completed", "cancelled", "refunded"}}
    \cup
  {[event |-> OrderStatusChanged,
    data |-> Some([NoData EXCEPT !.id = 1, !.status = "on-hold", !.total = Some(10),
                                 !.payment_method = "cod"])]}
    \cup
  {[event |-> OrderUpdated,
    data |-> Some([NoData EXCEPT !.id = id, !.status = "processing", !.total = Some(10),
                                 !.payment_method = "cod"])] :
     id \in OrderIds}

\* An authenticated request arrives once the previous one has been answered.
ReceiveNext(h) ==
  /\ \A g \in Handlers : Idle(g)
  /\ \E body \in TurnBodies :
       /\ ReceiveBody(h, body)
       /\ history' = Append(history, Snapshot(h, None, body))
  /\ UNCHANGED latest

\* ------------------------------------- product create, update and delete
\* Requests handled by the product controller before the run ends.
MaxRequests == 2

\* No product request is in progress.
NoRequest == [op |-> "none", pc |-> "done", status |-> 0, name |-> "", recount |-> FALSE,
              served |-> 0]

\* No call of syncProductToWooCommerce has been made.
NoRemote ==
  [pc |-> "idle", retryCount |-> 0, outcome |-> "none", delays |-> <<>>, attempts |-> 0,
   last |-> "none"]

\* A request may arrive once the previous one is answered and the sync it
\* started has returned.
AcceptsRequest ==
  request.pc = "done" /\ remote.pc # "inflight" /\ request.served < MaxRequests

Arrived(op, pc, name, recount) ==
  [op |-> op, pc |-> pc, status |-> 0, name |-> name, recount |-> recount,
   served |-> request.served + 1]

\* res.status(status).json(...): the request is answered.
Answered(status) == [request EXCEPT !.pc = "done", !.status = status]

\* The status each handler answers with on success and from its catch.
SuccessStatus(op) == IF op = "create" THEN 201 ELSE 200

CatchStatus(op) == IF op = "delete" THEN 500 ELSE 400

\* const maxRetries = Math.min(SYNC_CONFIG.maxRetries, 2)
SingleMaxRetries == Min(maxRetries, 2)

\* syncProductToWooCommerce(product).catch(...), not awaited: the call returns
\* null at once when the sync is disabled and otherwise runs up to its first
\* axios.post; the handler goes on to answer in the same turn. `before` is
\* what the handler did in this turn before the call.
StartSync(before) ==
  IF syncEnabled
  THEN /\ remote' = [NoRemote EXCEPT !.pc = "inflight"]
       /\ events' = events \o before \o <<"sync started", "answered">>
  ELSE /\ remote' = [NoRemote EXCEPT !.pc = "done", !.outcome = "skipped"]
       /\ events' = events \o before \o <<"sync skipped", "answered">>

\* The last lines of createProduct and updateProduct: start the sync, answer.
SyncAndRespond(before) ==
  /\ StartSync(before)
  /\ request' = Answered(SuccessStatus(request.op))

\* createProduct up to await product.save(): the pre-save hook gives a product
\* without SKU a generated one.
createProduct ==
  /\ AcceptsRequest
  /\ localProduct = None
  /\ \E name \in {"shirt"} : request' = Arrived("create", "save", name, TRUE)
  /\ events' = <<>>
  /\ remote' = NoRemote
  /\ UNCHANGED localProduct
  /\ UNCHANGED <<syncVars, webhookVars, statusVars>>

\* await product.save() of the new product.
SaveNewProduct ==
  /\ request.pc = "save"
  /\ \/ /\ localProduct' = Some([sku |-> "A", name |-> request.name])
        /\ request' = [request EXCEPT !.pc = "category"]
        /\ events' = Append(events, "persisted")
     \/ /\ request' = Answered(CatchStatus(request.op))
        /\ events' = Append(events, "answered")
        /\ UNCHANGED localProduct
  /\ UNCHANGED remote
  /\ UNCHANGED <<syncVars, webhookVars, statusVars>>

\* updateProduct up to await Product.findByIdAndUpdate: 404 when the product
\* does not exist; the category may or may not change.
updateProduct ==
  /\ AcceptsRequest
  /\ events' = IF localProduct = None THEN <<"answered">> ELSE <<>>
  /\ remote' = NoRemote
  /\ \E name \in {"skirt"}, recount \in BOOLEAN :
       request' = IF localProduct = None
                  THEN [Arrived("update", "done", name, recount) EXCEPT !.status = 404]
                  ELSE Arrived("update", "update", name, recount)
  /\ UNCHANGED localProduct
  /\ UNCHANGED <<syncVars, webhookVars, statusVars>>

\* await Product.findByIdAndUpdate(...); without a category change the sync
\* and the answer follow at once.
FindByIdAndUpdate ==
  /\ request.pc = "update"
  /\ \/ /\ localProduct' = Some([localProduct[1] EXCEPT !.name = request.name])
        /\ IF request.recount
           THEN /\ request' = [request EXCEPT !.pc = "category"]
                /\ events' = Append(events, "persisted")
                /\ UNCHANGED remote
           ELSE SyncAndRespond(<<"persisted">>)
     \/ /\ request' = Answered(CatchStatus(request.op))
        /\ events' = Append(events, "answered")
        /\ UNCHANGED <<localProduct, remote>>
  /\ UNCHANGED <<syncVars, webhookVars, statusVars>>

\* deleteProduct up to the deletion from WooCommerce: 404 when the product
\* does not exist; a product without SKU goes straight to the local deletion.
deleteProduct ==
  /\ AcceptsRequest
  /\ events' = IF localProduct = None THEN <<"answered">> ELSE <<>>
  /\ remote' = NoRemote
  /\ request' = IF localProduct = None
                THEN [Arrived("delete", "done", "", TRUE) EXCEPT !.status = 404]
                ELSE IF localProduct[1].sku # ""
                THEN Arrived("delete", "deleteRemote", "", TRUE)
                ELSE Arrived("delete", "deleteLocal", "", TRUE)
  /\ UNCHANGED localProduct
  /\ UNCHANGED <<syncVars, webhookVars, statusVars>>

\* A remote deletion whose failure is thrown to the handler's catch.
DeleteFromWooCommerceThrowing ==
  /\ request.pc = "deleteRemote"
  /\ \E outcome \in (IF syncEnabled THEN {"ok", "failed"} ELSE {"skipped"}) :
       /\ remote' = [NoRemote EXCEPT !.pc = "done", !.outcome = outcome]
       /\ events' = Append(events, IF outcome = "skipped" THEN "remote deletion skipped"
                                   ELSE "remote deletion attempted")
       /\ request' = IF outcome = "failed" THEN Answered(CatchStatus(request.op))
                     ELSE [request EXCEPT !.pc = "deleteLocal"]
  /\ UNCHANGED localProduct
  /\ UNCHANGED <<syncVars, webhookVars, statusVars>>

\* await deleteProductFromWooCommerce(product.sku).catch(...): skipped when the
\* sync is disabled; otherwise one axios.post whose failure is caught, logged
\* and returned as {success: false}.
DeleteFromWooCommerce ==
  /\ request.pc = "deleteRemote"
  /\ \E outcome \in (IF syncEnabled THEN {"ok", "failed"} ELSE {"skipped"}) :
       /\ remote' = [NoRemote EXCEPT !.pc = "done", !.outcome = outcome]
       /\ events' = Append(events, IF outcome = "skipped" THEN "remote deletion skipped"
                                   ELSE "remote deletion attempted")
  /\ request' = [request EXCEPT !.pc = "deleteLocal"]
  /\ UNCHANGED localProduct
  /\ UNCHANGED <<syncVars, webhookVars, statusVars>>

\* await Product.findByIdAndDelete(req.params.id)
FindByIdAndDelete ==
  /\ request.pc = "deleteLocal"
  /\ \/ /\ localProduct' = None
        /\ request' = [request EXCEPT !.pc = "category"]
        /\ events' = Append(events, "deleted")
     \/ /\ request' = Answered(CatchStatus(request.op))
        /\ events' = Append(events, "answered")
        /\ UNCHANGED localProduct
  /\ UNCHANGED remote
  /\ UNCHANGED <<syncVars, webhookVars, statusVars>>

\* await Category.findOne, await category.updateProductCount(), then the end of
\* the handler: createProduct and updateProduct start the sync and answer,
\* deleteProduct answers.
UpdateProductCount ==
  /\ request.pc = "category"
  /\ \/ IF request.op = "delete"
        THEN /\ request' = Answered(SuccessStatus(request.op))
             /\ events' = Append(events, "answered")
             /\ UNCHANGED remote
        ELSE SyncAndRespond(<<>>)
     \/ /\ request' = Answered(CatchStatus(request.op))
        /\ events' = Append(events, "answered")
        /\ UNCHANGED remote
  /\ UNCHANGED localProduct
  /\ UNCHANGED <<syncVars, webhookVars, statusVars>>

\* retryDelay = Math.floor(SYNC_CONFIG.retryDelay / 2)
SingleRetryDelay == retryDelay \div 2

\* How a request ended: with a response, rejected with 401/403, failed with a
\* 5xx status, or failed otherwise.
Ending(error) ==
  IF error = OkOutcome THEN "ok"
  ELSE IF isAuthError(error) THEN "auth"
  ELSE IF error.status \in 500..599 THEN "server"
  ELSE "other"

\* The call after one axios.post that ended with `error` (or OkOutcome): it
\* returns on success, on an authentication error and once the retries are
\* used up; otherwise it waits and tries again.
AfterAttempt(error) ==
  LET sent == [remote EXCEPT !.attempts = @ + 1, !.last = Ending(error)]
  IN IF error = OkOutcome
     THEN [sent EXCEPT !.pc = "done", !.outcome = "ok"]
     ELSE IF remote.retryCount + 1 > SingleMaxRetries \/ isAuthError(error)
     THEN [sent EXCEPT !.pc = "done", !.outcome = "failed", !.retryCount = @ + 1]
     ELSE [sent EXCEPT !.retryCount = @ + 1,
                       !.delays = Append(@, Backoff(SingleRetryDelay, remote.retryCount + 1))]

\* A sync whose failure replaces the answer of the request that started it.
SyncAttemptSurfacing ==
  /\ remote.pc = "inflight"
  /\ \E error \in Errors \cup {OkOutcome} : remote' = AfterAttempt(error)
  /\ events' = IF remote'.pc = "done" THEN Append(events, "sync returned") ELSE events
  /\ request' = IF remote'.outcome = "failed" THEN [request EXCEPT !.status = 500]
                ELSE request
  /\ UNCHANGED localProduct
  /\ UNCHANGED <<syncVars, webhookVars, statusVars>>

\* One axios.post of syncProductToWooCommerce and what follows it; the promise
\* the call returned is not awaited by anyone.
SyncAttempt ==
  /\ remote.pc = "inflight"
  /\ \E error \in Errors \cup {OkOutcome} : remote' = AfterAttempt(error)
  /\ events' = IF remote'.pc = "done" THEN Append(events, "sync returned") ELSE events
  /\ UNCHANGED <<localProduct, request>>
  /\ UNCHANGED <<syncVars, webhookVars, statusVars>>

\* No product request has been received.
NoProductRequests ==
  /\ request = NoRequest
  /\ remote = NoRemote
  /\ events = <<>>
  /\ localProduct = None

\* An unset environment variable, read as process.env.X || ''.
Unset == [text |-> "", length |-> 0, http |-> FALSE]

\* The status endpoint has not been asked.
NoStatusRequest ==
  /\ env = <<[flag |-> FALSE, url |-> Unset, key |-> Unset],
             [flag |-> FALSE, url |-> Unset, key |-> Unset]>>
  /\ statusResponse = None

\* The sync-all request is not part of the webhook runs.
NoSync ==
  /\ syncEnabled = FALSE
  /\ posProducts = <<>>
  /\ chunkSize = 1
  /\ maxRetries = 0
  /\ results = [success |-> <<>>, failed |-> <<>>, total |-> 0]
  /\ chunkIndex = 0
  /\ retryCount = 0
  /\ success = FALSE
  /\ syncPc = "done"
  /\ loggedChunk = -1
  /\ attempts = 0
  /\ lastOutcome = NoOutcome
  /\ onlyTimeouts = FALSE
  /\ onlyNoResponse = FALSE
  /\ lastResponse = None
  /\ inFlight = <<>>
  /\ delays = <<>>
  /\ pushed = 0
  /\ syncResult = NoResult
  /\ statusCode = 0

\* No webhook has been received; the collections other than Product are empty.
NoWebhooks ==
  /\ orders = {}
  /\ customers = <<>>
  /\ handlers = [h \in Handlers |-> IdleHandler]
  /\ deliveries = 0
  /\ failures = 0
  /\ latest = [id \in OrderIds |-> None]
  /\ history = <<>>
  /\ expectedApiKey = None

\* A product as the POS keeps it: with a threshold its status is the one the
\* integration guide gives for its stock; without, it has no status.
StockedProduct(sku, stock, threshold) ==
  [sku |-> sku, stock |-> stock, lowStockThreshold |-> threshold,
   stockStatus |-> IF threshold = None THEN "" ELSE StockStatusOf(stock, threshold[1])]

\* A product has no threshold (the schema of Product.js) or a threshold of 2,
\* which stocks of 0, 1 and 2 put in each of the three statuses.
Thresholds == {None, Some(2)}

InitSync ==
  /\ NoStatusRequest
  /\ NoProductRequests
  /\ syncEnabled \in BOOLEAN
  /\ \E n \in 0..MaxProducts : posProducts = [i \in 1..n |-> i]
  /\ chunkSize \in 1..MaxChunkSize
  /\ maxRetries \in 0..MaxRetries
  /\ results = [success |-> <<>>, failed |-> <<>>, total |-> 0]
  /\ chunkIndex = 0
  /\ retryCount = 0
  /\ success = FALSE
  /\ syncPc = "request"
  /\ loggedChunk = -1
  /\ attempts = 0
  /\ lastOutcome = NoOutcome
  /\ onlyTimeouts = FALSE
  /\ onlyNoResponse = FALSE
  /\ lastResponse = None
  /\ inFlight = <<>>
  /\ delays = <<>>
  /\ pushed = 0
  /\ syncResult = NoResult
  /\ statusCode = 0
  /\ NoWebhooks
  /\ products = [s \in Skus |-> StockedProduct(s, 0, None)]

NextSync ==
  \/ SyncAllBegin
  \/ Post
  \/ AttemptResponse
  \/ AttemptError
  \/ SyncReturn
  \/ SyncAllRespond

SpecSync == InitSync /\ [][NextSync]_vars

\* A sync-all request that arrives once the product requests are over and the
\* sync of the created product has returned.
SyncAllAfterProducts ==
  /\ request.served > 0
  /\ request.pc = "done"
  /\ remote.pc # "inflight"
  /\ (localProduct # None \/ request.served = MaxRequests)
  /\ SyncAllBegin

\* The creation of a product, with its single-product sync, followed by a
\* batch sync.
NextBackoff ==
  \/ createProduct
  \/ SaveNewProduct
  \/ UpdateProductCount
  \/ SyncAttempt
  \/ SyncAllAfterProducts
  \/ Post
  \/ AttemptResponse
  \/ AttemptError
  \/ SyncReturn
  \/ SyncAllRespond

\* Sync enabled, two products synced in chunks of one, any maxRetries.
InitBackoff ==
  /\ InitSync
  /\ syncEnabled
  /\ posProducts = <<1, 2>>
  /\ chunkSize = 1

SpecBackoff == InitBackoff /\ [][NextBackoff]_vars

\* A sync-all request whose chunkSize query parameter is any integer from -1.
InitChunking ==
  /\ NoStatusRequest
  /\ NoProductRequests
  /\ NoWebhooks
  /\ products = [s \in Skus |-> StockedProduct(s, 0, None)]
  /\ syncEnabled \in BOOLEAN
  /\ \E n \in 0..MaxProducts : posProducts = [i \in 1..n |-> i]
  /\ \E query \in -1..MaxChunkSize : chunkSize = ChunkSizeOf(query)
  /\ maxRetries \in 0..MaxRetries
  /\ results = [success |-> <<>>, failed |-> <<>>, total |-> 0]
  /\ chunkIndex = 0
  /\ retryCount = 0
  /\ success = FALSE
  /\ syncPc = "request"
  /\ loggedChunk = -1
  /\ attempts = 0
  /\ lastOutcome = NoOutcome
  /\ onlyTimeouts = FALSE
  /\ onlyNoResponse = FALSE
  /\ lastResponse = None
  /\ inFlight = <<>>
  /\ delays = <<>>
  /\ pushed = 0
  /\ syncResult = NoResult
  /\ statusCode = 0

NextChunking ==
  \/ SyncAllBeginSplitting
  \/ Push
  \/ Post
  \/ AttemptResponse
  \/ AttemptError
  \/ SyncReturn
  \/ SyncAllRespond

SpecChunking == InitChunking /\ [][NextChunking]_vars

\* ------------------------------------------------ sync status endpoint
\* const enabled = syncEnabled && wordpressUrl && wordpressApiKey; return enabled:
\* && yields its first falsy operand, or its last operand.
isWooCommerceSyncEnabled(e) ==
  IF ~e.flag THEN [type |-> "boolean", text |-> "false"]
  ELSE IF e.url.text = "" THEN [type |-> "string", text |-> ""]
  ELSE [type |-> "string", text |-> e.key.text]

\* validateWooCommerceConfig(): the issues found.
validateWooCommerceConfig(e) ==
  LET issues ==
        (IF ~e.flag THEN {"SYNC_TO_WOOCOMMERCE is not set to true"} ELSE {})
        \cup (IF e.url.text = "" THEN {"WORDPRESS_URL is not configured"}
              ELSE IF ~e.url.http THEN {"WORDPRESS_URL must start with http"} ELSE {})
        \cup (IF e.key.text = "" THEN {"WORDPRESS_API_KEY is not configured"}
              ELSE IF e.key.length < 10 THEN {"WORDPRESS_API_KEY appears to be too short"}
              ELSE {})
  IN [valid |-> issues = {}, issues |-> issues]

\* checkWordPressPluginStatus(): no request without URL or key; otherwise the
\* outcome of axios.get, probe.
checkWordPressPluginStatus(e, probe) ==
  IF e.url.text = "" \/ e.key.text = ""
  THEN [enabled |-> FALSE, connected |-> FALSE, detail |-> "not configured"]
  ELSE [enabled |-> TRUE, connected |-> probe = "active", detail |-> probe]

\* GET /api/woocommerce/status, asked of both servers, whose probe of the
\* plugin ends the same way:
\* res.json({success: true, syncEnabled: isWooCommerceSyncEnabled(), configValid,
\*           configIssues, ...status})
getSyncStatus ==
  /\ statusResponse = None
  /\ \E probe \in {"active", "401", "ECONNREFUSED"} :
       LET body(e) ==
             [success |-> TRUE,
              syncEnabled |-> isWooCommerceSyncEnabled(e),
              configValid |-> validateWooCommerceConfig(e).valid,
              configIssues |-> validateWooCommerceConfig(e).issues,
              status |-> checkWordPressPluginStatus(e, probe)]
       IN statusResponse' = Some(<<body(env[1]), body(env[2])>>)
  /\ UNCHANGED env
  /\ UNCHANGED <<syncVars, webhookVars, crudVars>>

\* Two servers whose configurations differ in the API key at most: the flag
\* set or not; no URL, one without scheme or a valid one; no key, a short key
\* or one of two keys of twelve characters.
InitStatus ==
  /\ NoProductRequests
  /\ NoSync
  /\ NoWebhooks
  /\ products = [s \in Skus |-> StockedProduct(s, 0, None)]
  /\ statusResponse = None
  /\ \E flag \in BOOLEAN,
        url \in {Unset, [text |-> "shop.test", length |-> 9, http |-> FALSE],
                 [text |-> "https://shop.test", length |-> 17, http |-> TRUE]},
        key1, key2 \in {Unset, [text |-> "abc", length |-> 3, http |-> FALSE],
                        [text |-> "0123456789-a", length |-> 12, http |-> FALSE],
                        [text |-> "0123456789-b", length |-> 12, http |-> FALSE]} :
       env = <<[flag |-> flag, url |-> url, key |-> key1],
               [flag |-> flag, url |-> url, key |-> key2]>>

SpecStatus == InitStatus /\ [][getSyncStatus]_vars

\* The batch sync with responses that carry per-item results of every kind.
NextItems ==
  \/ SyncAllBegin
  \/ Post
  \/ AttemptItemResults
  \/ AttemptError
  \/ SyncReturn
  \/ SyncAllRespond

SpecItems == InitSync /\ [][NextItems]_vars

InitStock ==
  /\ NoStatusRequest
  /\ NoProductRequests
  /\ NoSync
  /\ NoWebhooks
  /\ \E stock \in 0..MaxStock, threshold \in Thresholds :
       products = [s \in Skus |-> StockedProduct(s, stock, threshold)]

NextStock ==
  \E h \in Handlers :
    \/ Receive(h)
    \/ SaveOrder(h)
    \/ FindProduct(h)
    \/ SaveProduct(h)
    \/ FindCustomer(h)
    \/ SaveCustomer(h)
    \/ MarkProcessed(h)
    \/ SaveError(h)

SpecStock == InitStock /\ [][NextStock]_vars

\* Order deliveries without line items, handled concurrently.
NextCustomers ==
  \E h \in Handlers :
    \/ ReceiveCreated(h)
    \/ SaveOrder(h)
    \/ FindCustomer(h)
    \/ SaveCustomer(h)
    \/ MarkProcessed(h)
    \/ SaveError(h)

SpecCustomers == InitStock /\ [][NextCustomers]_vars

\* The product controller, for a catalogue that holds no product, a product
\* with a SKU or a product saved without one; no webhook arrives.
InitProducts ==
  /\ NoStatusRequest
  /\ syncEnabled \in BOOLEAN
  /\ maxRetries \in 0..MaxRetries
  /\ posProducts = <<>>
  /\ chunkSize = 1
  /\ results = [success |-> <<>>, failed |-> <<>>, total |-> 0]
  /\ chunkIndex = 0
  /\ retryCount = 0
  /\ success = FALSE
  /\ syncPc = "done"
  /\ loggedChunk = -1
  /\ attempts = 0
  /\ lastOutcome = NoOutcome
  /\ onlyTimeouts = FALSE
  /\ onlyNoResponse = FALSE
  /\ lastResponse = None
  /\ inFlight = <<>>
  /\ delays = <<>>
  /\ pushed = 0
  /\ syncResult = NoResult
  /\ statusCode = 0
  /\ NoWebhooks
  /\ products = [s \in Skus |-> StockedProduct(s, 0, None)]
  /\ request = NoRequest
  /\ remote = NoRemote
  /\ events = <<>>
  /\ localProduct \in {None, Some([sku |-> "A", name |-> "shirt"]),
                        Some([sku |-> "", name |-> "shirt"])}

NextProducts ==
  \/ createProduct
  \/ SaveNewProduct
  \/ updateProduct
  \/ FindByIdAndUpdate
  \/ deleteProduct
  \/ DeleteFromWooCommerce
  \/ FindByIdAndDelete
  \/ UpdateProductCount
  \/ SyncAttempt

SpecProducts == InitProducts /\ [][NextProducts]_vars

InitMerge ==
  /\ NoStatusRequest
  /\ NoProductRequests
  /\ NoSync
  /\ NoWebhooks
  /\ products = [s \in Skus |-> StockedProduct(s, MaxStock, Some(2))]

NextMerge ==
  \E h \in Handlers :
    \/ ReceiveInTurn(h)
    \/ SaveOrder(h)
    \/ FindProduct(h)
    \/ SaveProduct(h)
    \/ FindCustomer(h)
    \/ SaveCustomer(h)
    \/ MarkProcessed(h)
    \/ SaveError(h)

SpecMerge == InitMerge /\ [][NextMerge]_vars

\* The server starts with or without WEBHOOK_API_KEY in its environment.
InitAuth ==
  /\ NoStatusRequest
  /\ NoProductRequests
  /\ NoSync
  /\ orders = {}
  /\ customers = <<>>
  /\ handlers = [h \in Handlers |-> IdleHandler]
  /\ deliveries = 0
  /\ failures = 0
  /\ latest = [id \in OrderIds |-> None]
  /\ history = <<>>
  /\ expectedApiKey \in {None, Some("key")}
  /\ products = [s \in Skus |-> StockedProduct(s, MaxStock, Some(2))]

NextAuth ==
  \E h \in Handlers :
    \/ PostOrdersInTurn(h)
    \/ SaveOrder(h)
    \/ FindProduct(h)
    \/ SaveProduct(h)
    \/ FindCustomer(h)
    \/ SaveCustomer(h)
    \/ MarkProcessed(h)
    \/ SaveError(h)

SpecAuth == InitAuth /\ [][NextAuth]_vars

NextTurn ==
  \E h \in Handlers :
    \/ ReceiveNext(h)
    \/ SaveOrder(h)
    \/ FindProduct(h)
    \/ SaveProduct(h)
    \/ FindCustomer(h)
    \/ SaveCustomer(h)
    \/ MarkProcessed(h)
    \/ SaveError(h)

SpecTurn == InitStock /\ [][NextTurn]_vars

\* -------------------------------------------------- batch sync: claims

\* syncProductsToWooCommerce has returned its result object.
SyncReturned == syncPc = "respond" \/ (syncPc = "done" /\ statusCode \notin {0, 400}
                                                       /\ Len(posProducts) > 0)

\* The loop has left the chunk the last request was sent for.
LoggedChunkFinished ==
  loggedChunk >= 0 /\ (syncPc \notin {"attempt", "await"} \/ chunkIndex > loggedChunk)

\* The products of the chunk the last request was sent for.
LoggedMembers ==
  IF loggedChunk < 0 THEN {}
  ELSE {ChunkAt(loggedChunk)[i] : i \in 1..Len(ChunkAt(loggedChunk))}

\* Number of failed entries of product p that carry error err.
RECURSIVE CountFailedWith(_, _, _)
CountFailedWith(s, p, err) ==
  IF s = <<>> THEN 0
  ELSE (IF Head(s).sku = p /\ Head(s).error = err THEN 1 ELSE 0)
       + CountFailedWith(Tail(s), p, err)

InputProducts == {posProducts[i] : i \in 1..Len(posProducts)}

\* C2: partition completeness. Once the batch sync has returned,
\* |success| + |failed| = N = total and every input product is in exactly one
\* of the two lists.
C2_PartitionComplete ==
  SyncReturned =>
    /\ Len(results.success) + Len(results.failed) = Len(posProducts)
    /\ results.total = Len(posProducts)
    /\ \A p \in InputProducts :
         Count(results.success, p) + CountFailed(results.failed, p) = 1

NoDuplicates ==
  \A p \in InputProducts :
    Count(results.success, p) + CountFailed(results.failed, p) <= 1

\* C6: an attempt rejected with 401/403, the first or a later one, ends the
\* chunk: no further attempt is made and every member is marked failed with
\* the credential-misconfiguration diagnostic. (Stated for the runs in which
\* every response array had its chunk's length at most.)
C6_AuthNeverRetried ==
  (loggedChunk >= 0 /\ isAuthError(lastOutcome) /\ NoDuplicates
     /\ \A p \in LoggedMembers : Count(results.success, p) = 0) =>
    /\ LoggedChunkFinished
    /\ \A p \in LoggedMembers :
         CountFailedWith(results.failed, p, AuthenticationError) = 1

\* C7 as stated: an attempt failing with any 5xx status ends the chunk and
\* its members are marked failed.
C7_Any5xxNotRetried ==
  (loggedChunk >= 0 /\ lastOutcome.status \in 500..599) =>
    /\ LoggedChunkFinished
    /\ \A p \in LoggedMembers : CountFailed(results.failed, p) >= 1

\* C7 as amended: an attempt failing with status 500 ends the chunk at once,
\* each member being marked failed with the platform diagnostic, or with the
\* conflict error when the message matches the duplicate-SKU pattern; an
\* attempt failing with another 5xx status is retried while retries remain.
C7_Status500NotRetried ==
  /\ (loggedChunk >= 0 /\ lastOutcome.status = 500) =>
       /\ LoggedChunkFinished
       /\ \A p \in LoggedMembers :
            CountFailedWith(results.failed, p,
                            IF lastOutcome.skuConflict THEN "sku_conflict"
                            ELSE "wordpress_server_error") = 1
  /\ (loggedChunk >= 0 /\ lastOutcome.status \in 501..599 /\ attempts <= maxRetries) =>
       ~LoggedChunkFinished

\* C7 witness: the first attempt of a chunk got a 500 with the duplicate-SKU
\* message while retries remained, and the chunk was left.
C7_Witness ==
  /\ loggedChunk >= 0 /\ lastOutcome.status = 500 /\ lastOutcome.skuConflict
  /\ attempts = 1 /\ maxRetries >= 1
  /\ LoggedChunkFinished
  /\ \A p \in LoggedMembers : CountFailedWith(results.failed, p, "sku_conflict") = 1

SomeSucceeded == Len(results.success) > 0

SomeFailed == Len(results.failed) > 0

\* The machine-readable status of a returned result (its message is text).
StatusOf(result) == [success |-> result.success, error |-> result.error]

\* Every input product is in exactly one of the two result lists.
WellPartitioned ==
  \A p \in InputProducts :
    Count(results.success, p) + CountFailed(results.failed, p) = 1

\* C8: the returned status is a failure exactly when every item failed, and
\* the status of a partial success differs from the status of a total success.
\* (Stated for the runs whose result is a partition of the input.)
C8_ThreeOutcomes ==
  (SyncReturned /\ WellPartitioned) =>
    /\ (syncResult.success = FALSE) <=> (SomeFailed /\ ~SomeSucceeded)
    /\ (SomeSucceeded /\ SomeFailed) =>
         StatusOf(syncResult)
           # StatusOf(ReturnValue([success |-> <<1>>, failed |-> <<>>, total |-> 1]))

\* C9: the sync-all endpoint answers 207 when some products succeeded and some
\* failed, 200 when all succeeded and 500 when all failed. (Stated for the
\* runs whose result is a partition of the input.)
C9_SyncAllStatus ==
  (syncPc = "done" /\ syncEnabled /\ Len(posProducts) > 0 /\ WellPartitioned) =>
    /\ (SomeSucceeded /\ SomeFailed) => statusCode = 207
    /\ (SomeSucceeded /\ ~SomeFailed) => statusCode = 200
    /\ (SomeFailed /\ ~SomeSucceeded) => statusCode = 500

TransientDiagnostics == {"request_timeout", "network_error"}

\* C25: a chunk given up after every attempt timed out, or after every attempt
\* failed without a response, has each member in the failed list with a
\* diagnostic that states the timeout or connectivity cause.
C25_TransientDiagnostic ==
  (loggedChunk >= 0 /\ (onlyTimeouts \/ onlyNoResponse) /\ LoggedChunkFinished) =>
    \A p \in LoggedMembers :
      /\ CountFailed(results.failed, p) >= 1
      /\ \A i \in 1..Len(results.failed) :
           results.failed[i].sku = p => results.failed[i].error \in TransientDiagnostics

\* --------------------------------------------- per-item results: claims
\* The failed entries recorded for product p.
FailedEntries(p) ==
  {i \in 1..Len(results.failed) : results.failed[i].sku = p}

\* The message of the item's platform error mentions a SKU that is already
\* present: the duplicate-SKU pattern.
IsDuplicateSku(item) ==
  /\ item.error.given /\ item.error.wpError # None
  /\ \E i, j \in 1..Len(item.error.wpError[1]) :
       item.error.wpError[1][i] = "SKU" /\ item.error.wpError[1][j] = "already present"

\* The entry names the identifier the message gives in parentheses after "SKU",
\* when it gives one.
NamesIdentifier(entry, message) ==
  \A i \in 1..Len(message) : \A j \in (i + 3)..Len(message) :
    (/\ message[i] = "SKU" /\ message[i + 1] = "(" /\ message[j] = ")"
     /\ \A k \in (i + 2)..(j - 1) : message[k] \notin {"(", ")", "SKU"})
      => entry.conflictingSku = Some(SubSeq(message, i + 2, j - 1))

Quiescent == \A h \in Handlers : Idle(h)

\* The order record stored for id shows what delivery d carried.
Reflects(o, d) ==
  /\ o.event_type = d.event
  /\ o.status = d.data[1].status
  /\ o.total = d.data[1].total
  /\ o.payment_method = d.data[1].payment_method

\* C1: after any sequence of deliveries, handled one after the other and
\* without any persistence failure, there is exactly one order record for each
\* external id delivered, and it shows the content of the most recent
\* delivery for that id.
C1_OneRecordOfLatestDelivery ==
  (Quiescent /\ failures = 0) =>
    \A id \in OrderIds :
      latest[id] # None =>
        /\ Cardinality(StoredOrders(id)) = 1
        /\ \A o \in StoredOrders(id) : Reflects(o, latest[id][1])

\* C3: the stock of every product is at least 0 in every reachable state.
C3_StockNeverNegative == \A s \in DOMAIN products : products[s].stock >= 0

\* An order.created delivery has been through its line items, the last of
\* which asked for more than the stock the handler read, and the stock is 0.
C3_Witness ==
  \E h \in Handlers :
    LET hr == handlers[h]
    IN /\ hr.pc \in {"findCustomer", "markProcessed"}
       /\ hr.event = OrderCreated
       /\ failures = 0
       /\ hr.found.sku \in DOMAIN products
       /\ hr.found.stock < hr.doc.line_items[Len(hr.doc.line_items)].quantity
       /\ products[hr.found.sku].stock = 0

\* C4: whenever webhook processing writes the stock of a product that has a
\* threshold, read and written with no other write in between, the status
\* stored with it is the one the guide's function gives for the new stock and
\* the threshold, whichever mutation wrote it.
C4_StatusIsFunctionOfStock ==
  [][\A h \in Handlers :
       LET hr == handlers[h]
       IN (/\ hr.pc = "saveProduct"
           /\ handlers'[h] # hr
           /\ products' # products
           /\ products[hr.found.sku] = hr.found
           /\ hr.found.lowStockThreshold # None)
          => products'[hr.found.sku].stockStatus =
               StockStatusOf(products'[hr.found.sku].stock, hr.found.lowStockThreshold[1])]_vars

\* C10: a request is answered 400 exactly when its event or its data is
\* missing, and 200 in every other case, whatever failed while handling it.
C10_AcknowledgedOnceValid ==
  \A h \in Handlers :
    LET hr == handlers[h]
    IN hr.pc = "done" =>
         /\ hr.response.status = 400 <=> (hr.event = "" \/ ~hr.hasData)
         /\ hr.response.status # 400 => hr.response.status = 200

\* A request with both fields was answered 200 although a persistence call
\* failed while it was handled and the answer reports the failure.
C10_Witness ==
  \E h \in Handlers :
    /\ handlers[h].pc = "done"
    /\ handlers[h].event # ""
    /\ handlers[h].hasData
    /\ failures > 0
    /\ handlers[h].response = [status |-> 200, success |-> FALSE]


\* ------------------------------------------- authentication: claims
LastRequest == history[Len(history)]

\* The collections are as the last request found them.
Untouched ==
  /\ orders = LastRequest.orders
  /\ products = LastRequest.products
  /\ customers = LastRequest.customers

\* C11: with a key configured, a request whose X-API-Key header is missing or
\* differs from it is answered 401 without reaching the receiver: no order
\* record, product or customer is created or changed, whatever its body.
C11_UnauthorizedIsRejected ==
  (history # <<>> /\ expectedApiKey # None /\ LastRequest.apiKey # expectedApiKey) =>
    /\ handlers[LastRequest.slot].pc = "done"
    /\ handlers[LastRequest.slot].response.status = 401
    /\ Untouched

\* A well-formed order.created arrived with a wrong key and was answered 401.
C11_Witness ==
  /\ history # <<>>
  /\ expectedApiKey = Some("key")
  /\ LastRequest.apiKey = Some("other")
  /\ LastRequest.body.event = OrderCreated
  /\ handlers[LastRequest.slot].response.status = 401
  /\ orders = {}

\* C12: with no key configured every request is handed to the receiver,
\* with or without an X-API-Key header and whatever its value: it is being
\* handled, or was answered by the receiver (200 or 400), never 401.
C12_FailOpen ==
  (history # <<>> /\ expectedApiKey = None) =>
    \/ handlers[LastRequest.slot].pc \notin {"idle", "done"}
    \/ handlers[LastRequest.slot].response.status \in {200, 400}

\* With no key configured, a request carrying a key and one carrying none
\* have both had their order stored by the receiver.
C12_Witness ==
  /\ Len(history) = 2
  /\ expectedApiKey = None
  /\ history[1].apiKey = Some("other")
  /\ history[2].apiKey = None
  /\ \E o \in orders : o.status = "cancelled"

\* --------------------------------------- deliveries in turn: claims
\* The last request received has been answered.
Delivered == history # <<>> /\ Quiescent

LastData == LastRequest.body.data[1]

\* No persistence call has failed since request r arrived.
NoFailureSince(r) == failures = r.failures

\* The order records for id in the collection os.
RecordsOf(os, id) == {o \in os : o.wc_order_id = id}

\* C13: a delivery with both fields whose event is of neither known kind,
\* handled without any persistence failure, is acknowledged as successful and
\* changes no product and creates no customer, for a new order id and for one
\* seen before.
C13_UnknownEventAcceptedAndIgnored ==
  (Delivered /\ LastRequest.body.event \notin EventTypes /\ NoFailureSince(LastRequest)) =>
    /\ handlers[LastRequest.slot].response = [status |-> 200, success |-> TRUE]
    /\ products = LastRequest.products
    /\ customers = LastRequest.customers

\* ------------------------------------------- status history: claims
IsPrefix(a, b) == Len(a) <= Len(b) /\ SubSeq(b, 1, Len(a)) = a

\* The entry a payload's explicit transition stands for, if it carries one.
Transition(data) ==
  IF data.status_change # None THEN <<data.status_change[1]>> ELSE <<>>

\* Handler h saves its order in this step, and the save succeeds.
PersistsOrder(h) ==
  /\ handlers[h].pc = "saveOrder"
  /\ handlers'[h] # handlers[h]
  /\ handlers'[h].pc = "done" => handlers'[h].response.success

\* C14: the status_changes history of every record is append-only. Every step
\* leaves the history it found as a prefix; a delivery that is persisted adds
\* the one entry of its explicit transition (to an empty history when the
\* record is new) or nothing when it carries none; no other step changes it.
C14_HistoryAppendOnly ==
  [][/\ \A o \in orders :
          \E n \in orders' :
            /\ n._id = o._id
            /\ IsPrefix(o.status_changes, n.status_changes)
            /\ n.status_changes # o.status_changes =>
                 \E h \in Handlers : PersistsOrder(h) /\ handlers[h].doc._id = o._id
     /\ \A h \in Handlers :
          PersistsOrder(h) =>
            \E n \in orders' :
              /\ n._id = handlers[h].doc._id
              /\ n.wc_order_id = handlers[h].data.id
              /\ n.status_changes =
                   (IF handlers[h].isNew THEN <<>>
                    ELSE (CHOOSE o \in orders : o._id = n._id).status_changes)
                     \o Transition(handlers[h].data)]_vars

\* A record whose history was seeded by one delivery and extended by the next.
C14_Witness == \E o \in orders : Len(o.status_changes) = 2

\* ------------------------------------------------ upsert merge: claims
\* The record a request found for the order id it carries.
OldRecords == RecordsOf(LastRequest.orders, LastData.id)

\* Field f of record o is the payload's value when the payload has the field
\* (present) and the value stored before otherwise.
Merged(o, old, f, present, value) == o[f] = IF present THEN value ELSE old[f]

\* C15: after a delivery for an order id that already has a record, handled
\* without any persistence failure, each field of the stored record has the
\* payload's value when the payload carries the field, a total of 0 included,
\* and the value stored before when it does not.
C15_FieldwiseMerge ==
  (/\ Delivered
   /\ LastRequest.body.event \in EventTypes
   /\ NoFailureSince(LastRequest)
   /\ OldRecords # {}) =>
    \A o \in StoredOrders(LastData.id) :
      \E old \in OldRecords :
        /\ Merged(o, old, "status", TRUE, LastData.status)
        /\ Merged(o, old, "payment_method", TRUE, LastData.payment_method)
        /\ Merged(o, old, "total", LastData.total # None, LastData.total)
        /\ Merged(o, old, "billing", LastData.billing # None, LastData.billing)
        /\ LastData.line_items # None => o.line_items = LastData.line_items[1]
        /\ LastData.line_items = None => o.line_items = old.line_items

\* -------------------------------------------- order.created: claims
RECURSIVE StockAfter(_, _, _)
\* The stock of product sku once every line item that names it has taken its
\* quantity out, never below zero.
StockAfter(stock, items, sku) ==
  IF items = <<>> THEN stock
  ELSE StockAfter(IF Head(items).sku = sku THEN Max(0, stock - Head(items).quantity)
                  ELSE stock,
                  Tail(items), sku)

\* The last request is an order.created for an id without a record, carries
\* no transition, and has been handled with no persistence failure.
CreatedCleanly ==
  /\ Delivered
  /\ LastRequest.body.event = OrderCreated
  /\ LastData.status_change = None
  /\ OldRecords = {}
  /\ NoFailureSince(LastRequest)

\* C16: an order.created delivery for a new id, handled with no persistence
\* failure, leaves one record for the id, processed and with an empty
\* history, and the stock of every product is what it was, less the quantity
\* of each line item that names it, never below zero.
C16_CreatedOrderIsProcessed ==
  CreatedCleanly =>
    /\ Cardinality(StoredOrders(LastData.id)) = 1
    /\ \A o \in StoredOrders(LastData.id) : o.processed /\ o.status_changes = <<>>
    /\ \A s \in DOMAIN products :
         products[s].stock =
           StockAfter(LastRequest.products[s].stock, LastData.line_items[1], s)

\* Such an order asked for more than the stock of a product, which is now 0.
C16_Witness ==
  /\ CreatedCleanly
  /\ \E s \in DOMAIN products :
       /\ LastRequest.products[s].stock > 0
       /\ LastData.line_items[1][1] = Item(s, LastRequest.products[s].stock + 1)
       /\ products[s].stock = 0

\* ----------------------------------------------- round trip: claims
\* The request before the last one.
Previous == history[Len(history) - 1]

\* The last two requests are an order.created for a new id and the
\* cancellation or refund of the same order, which keeps its line items;
\* both were handled with no persistence failure.
RoundTrip ==
  /\ Delivered
  /\ Len(history) >= 2
  /\ Previous.body.event = OrderCreated
  /\ RecordsOf(Previous.orders, Previous.body.data[1].id) = {}
  /\ LastRequest.body.event = OrderStatusChanged
  /\ LastData.id = Previous.body.data[1].id
  /\ LastData.status \in {"cancelled", "refunded"}
  /\ LastData.line_items = None
  /\ NoFailureSince(Previous)

\* C17: creating an order and then cancelling or refunding it leaves the
\* stock of every product as it was before the order was created, for every
\* initial stock and every quantity.
C17_CancelRestoresStock ==
  RoundTrip => \A s \in DOMAIN products : products[s].stock = Previous.products[s].stock

FailedAfterPersisting ==
  /\ Delivered
  /\ LastRequest.body.event \in EventTypes
  /\ OldRecords = {}
  /\ StoredOrders(LastData.id) # {}
  /\ failures > LastRequest.failures

\* C20: a failure in the side effects that follow the persisting of the order
\* is recorded in the processing_error of the order's record, and the record
\* is kept.
C20_PipelineFailureRecorded ==
  FailedAfterPersisting =>
    \A o \in StoredOrders(LastData.id) : o.processing_error # ""

\* -------------------------------------------------- redelivery: claims
\* The last request repeats the one before it, an order.created for an id
\* that was new, and both were handled with no persistence failure.
Redelivered ==
  /\ Delivered
  /\ Len(history) >= 2
  /\ Previous.body.event = OrderCreated
  /\ RecordsOf(Previous.orders, Previous.body.data[1].id) = {}
  /\ LastRequest.body = Previous.body
  /\ NoFailureSince(Previous)

\* C21: delivering the same order.created event again leaves the products,
\* the customers and the order records as they were after the first delivery
\* (the collections the second request found).
C21_RedeliveryIsIdempotent ==
  Redelivered => Untouched

\* -------------------------------------------- product requests: claims
\* Every event b of the request was preceded by one of the events as.
Preceded(as, b) ==
  \A j \in 1..Len(events) :
    events[j] = b => \E i \in 1..(j - 1) : events[i] \in as

\* C22: when a product with a SKU is deleted, the remote deletion is attempted
\* (or skipped, with the sync disabled) before the local deletion; whatever
\* the remote deletion's outcome, the handler goes on to the local deletion
\* with no answer given and the product still there; and a delete request
\* answered 200 has deleted the product.
C22_DeleteRemoteThenLocal ==
  /\ []((request.op = "delete" /\ remote.outcome # "none") =>
          Preceded({"remote deletion attempted", "remote deletion skipped"}, "deleted"))
  /\ []((request.op = "delete" /\ request.pc = "done" /\ request.status = 200) =>
          localProduct = None)
  /\ [][request.pc = "deleteRemote" =>
          /\ request'.pc = "deleteLocal" /\ request'.status = 0
          /\ localProduct' = localProduct /\ remote'.outcome # "none"]_vars

\* A delete request whose remote deletion failed has deleted the product and
\* answered 200.
C22_Witness ==
  /\ request.op = "delete" /\ request.pc = "done" /\ request.status = 200
  /\ remote.outcome = "failed"
  /\ localProduct = None
  /\ events = <<"remote deletion attempted", "deleted", "answered">>

\* C23: on product create and update the product is persisted before the
\* sync is started (or skipped, with the sync disabled); the request is
\* answered while the sync is still in flight, before it returns; and no step
\* of the sync, whatever its outcome, changes the local product or the answer.
C23_SyncAfterPersistAndDetached ==
  /\ [](request.op \in {"create", "update"} =>
          /\ Preceded({"persisted"}, "sync started")
          /\ Preceded({"persisted"}, "sync skipped")
          /\ Preceded({"answered"}, "sync returned"))
  /\ [](remote.pc = "inflight" =>
          request.pc = "done" /\ request.status = SuccessStatus(request.op))
  /\ [][remote.pc = "inflight" =>
          localProduct' = localProduct /\ request' = request]_vars

\* A create request was answered 201 after the product was persisted and the
\* sync started; the sync then failed, and the product and the answer stay.
C23_Witness ==
  /\ request.op = "create" /\ request.pc = "done" /\ request.status = 201
  /\ remote.pc = "done" /\ remote.outcome = "failed" /\ remote.retryCount > 1
  /\ localProduct = Some([sku |-> "A", name |-> "shirt"])
  /\ events = <<"persisted", "sync started", "answered", "sync returned">>

\* ---------------------------------------------- status changes: claims
RECURSIVE RestockedAfter(_, _, _)
\* The stock of product sku after the quantities of its line items are added.
RestockedAfter(stock, items, sku) ==
  IF items = <<>> THEN stock
  ELSE RestockedAfter(IF Head(items).sku = sku THEN stock + Head(items).quantity
                      ELSE stock, Tail(items), sku)

\* The last delivery is an order.status_changed handled with no persistence
\* failure.
StatusChangedCleanly ==
  /\ Delivered
  /\ LastRequest.body.event = OrderStatusChanged
  /\ NoFailureSince(LastRequest)

\* C26: an order.status_changed delivery to cancelled or refunded adds the
\* quantity of each matched line item of the order to the stock; to any other
\* status it leaves every product, stock and status, as it was; in both cases
\* the order is marked processed.
C26_StatusChangeStockEffect ==
  StatusChangedCleanly =>
    \A o \in StoredOrders(LastData.id) :
      /\ o.processed
      /\ IF LastData.status \in {"cancelled", "refunded"}
         THEN \A s \in DOMAIN products :
                products[s].stock =
                  RestockedAfter(LastRequest.products[s].stock, o.line_items, s)
         ELSE products = LastRequest.products

\* An order with a line item was completed after its creation had taken
\* stock: the stock stays as the creation left it.
C26_Witness ==
  /\ StatusChangedCleanly
  /\ LastData.status = "completed"
  /\ \E o \in StoredOrders(LastData.id) :
       /\ o.processed /\ o.line_items # <<>> /\ o.status = "completed"
       /\ \E s \in DOMAIN products :
            /\ o.line_items[1].sku = s
            /\ products[s].stock > 0
            /\ products[s] = LastRequest.products[s]

\* ------------------------------------------ per-item inventory: claims
\* The line items of product sku.
Matched(items, sku) == {i \in 1..Len(items) : items[i].sku = sku}

RECURSIVE AppliedAfter(_, _, _, _, _)
\* The stock after the items whose index is in `applied` are applied in order,
\* from item i on: added when restocking, deducted down to zero otherwise.
AppliedAfter(stock, items, i, applied, restock) ==
  IF i > Len(items) THEN stock
  ELSE AppliedAfter(IF i \notin applied THEN stock
                    ELSE IF restock THEN stock + items[i].quantity
                    ELSE Max(0, stock - items[i].quantity),
                    items, i + 1, applied, restock)

\* The last delivery changes stock (order.created, or a status change to
\* cancelled or refunded) and its order record was persisted.
AdjustsInventory ==
  /\ Delivered
  /\ \/ LastRequest.body.event = OrderCreated
     \/ /\ LastRequest.body.event = OrderStatusChanged
        /\ LastData.status \in {"cancelled", "refunded"}
  /\ handlers[LastRequest.slot].response.success

\* C27: the inventory adjustment goes item by item. Items without SKU or of
\* unknown products are skipped, and an item is left out only by a failed
\* persistence call of its own: with f failed calls at most f items of known
\* products are left out, and every other item is applied, in the decrement
\* and in the restock path.
C27_ItemsAppliedIndependently ==
  AdjustsInventory =>
    \A o \in StoredOrders(LastData.id) : \A s \in DOMAIN products :
      \E applied \in SUBSET Matched(o.line_items, s) :
        /\ Cardinality(Matched(o.line_items, s) \ applied) <= failures - LastRequest.failures
        /\ products[s].stock =
             AppliedAfter(LastRequest.products[s].stock, o.line_items, 1, applied,
                          LastRequest.body.event = OrderStatusChanged)

\* An order of two items of one product was created while one persistence
\* call failed for one item: the other item was deducted, and the order is
\* marked processed.
C27_Witness ==
  /\ AdjustsInventory
  /\ LastRequest.body.event = OrderCreated
  /\ failures = LastRequest.failures + 1
  /\ \E o \in StoredOrders(LastData.id) : \E s \in DOMAIN products :
       /\ o.processed /\ o.processing_error = ""
       /\ o.line_items = <<Item(s, 1), Item(s, 1)>>
       /\ LastRequest.products[s].stock = 2
       /\ products[s].stock = 1

\* ------------------------------------------- order of effects: claims
\* C28: side effects follow a successful upsert only. A step that changes a
\* product or creates a customer is taken by a handler whose order record is
\* in the collection already; and a handler whose lookup or save of the order
\* fails answers in that step, which changes no product and no customer, and
\* so never comes to a step that does.
C28_EffectsAfterUpsert ==
  [][/\ (products' # products \/ customers' # customers) =>
          \E h \in Handlers :
            /\ handlers'[h] # handlers[h]
            /\ handlers[h].pc \in {"saveProduct", "saveCustomer"}
            /\ \E o \in orders : o._id = handlers[h].doc._id
     /\ \A h \in Handlers :
          (/\ handlers'[h] # handlers[h]
           /\ handlers[h].pc \in {"idle", "done", "saveOrder"}
           /\ failures' > failures) =>
            /\ handlers'[h].pc = "done"
            /\ ~handlers'[h].response.success
            /\ products' = products /\ customers' = customers]_vars

\* A handler is about to save a product for an order whose record is stored,
\* while another handler has answered with a failure.
C28_Witness ==
  \E h, g \in Handlers :
    /\ handlers[h].pc = "saveProduct"
    /\ \E o \in orders : o._id = handlers[h].doc._id
    /\ handlers[g].pc = "done" /\ handlers[g].hasData /\ handlers[g].event \in EventTypes
    /\ ~handlers[g].response.success

\* ------------------------------------------------ marking: claims
\* C29: the marking of an order record reflects the outcome of the latest
\* delivery for its id. No record is both processed and carrying a
\* processing_error; a delivery that recorded a processing_error left the
\* record unprocessed; and after a delivery handled with no failure the
\* record is processed and carries no processing_error.
C29_MarkingReflectsLastDelivery ==
  /\ \A o \in orders : ~(o.processed /\ o.processing_error # "")
  /\ (Delivered /\ LastRequest.body.event \in EventTypes) =>
       \A o \in StoredOrders(LastData.id) :
         /\ (/\ o.processing_error # ""
             /\ \A old \in OldRecords : old.processing_error = "") => ~o.processed
         /\ NoFailureSince(LastRequest) => (o.processed /\ o.processing_error = "")

\* ------------------------------------------- chunk sequencing: claims
\* Chunk k has reached its final outcome: its last request succeeded, or each
\* of its members is recorded failed.
Settled(k) ==
  \/ lastOutcome = OkOutcome
  \/ \A i \in 1..Len(ChunkAt(k)) : CountFailed(results.failed, ChunkAt(k)[i]) > 0

\* C30: within one batch sync the chunks are processed one after the other in
\* input order. At most one request is in flight at any time; a request is
\* sent only when none is pending; it is a retry of the chunk of the request
\* before it, or the first attempt of the next chunk, sent after that chunk
\* has succeeded or has been recorded failed.
C30_ChunksInSequence ==
  /\ [](Len(inFlight) <= 1)
  /\ [][Len(inFlight') > Len(inFlight) =>
          LET k == inFlight'[Len(inFlight')]
          IN /\ inFlight = <<>>
             /\ k \in {loggedChunk, loggedChunk + 1}
             /\ (k = loggedChunk) = (retryCount > 0)
             /\ (k = loggedChunk + 1 /\ k > 0) => Settled(loggedChunk)]_vars

\* The first request of the second chunk is in flight after the first chunk
\* was recorded failed on its last retry.
C30_Witness ==
  /\ inFlight = <<1>>
  /\ loggedChunk = 0
  /\ attempts > 1
  /\ lastOutcome # OkOutcome

\* ------------------------------------------- later chunks: claims
\* The members of chunk k.
Members(k) == {ChunkAt(k)[i] : i \in 1..Len(ChunkAt(k))}

\* list extends old.
Extends(list, old) ==
  Len(list) >= Len(old) /\ SubSeq(list, 1, Len(old)) = old

\* C31: a failed chunk does not keep later chunks from syncing. The loop
\* leaves a chunk for the next one only, whatever the outcome of its last
\* request; when that request failed, the members of the chunk are recorded
\* failed with the error of that request, and what was recorded for earlier
\* chunks stays; and the sync returns only after a request was sent for the
\* last chunk.
C31_FailedChunkDoesNotBlock ==
  /\ [](SyncReturned => loggedChunk = Len(chunks) - 1)
  /\ [][chunkIndex' # chunkIndex =>
          /\ chunkIndex' = chunkIndex + 1
          /\ loggedChunk' = chunkIndex
          /\ Extends(results'.failed, results.failed)
          /\ Extends(results'.success, results.success)
          /\ lastOutcome' # OkOutcome =>
               \A p \in Members(chunkIndex) :
                 CountFailedWith(results'.failed, p, AuthenticationError)
                   + CountFailedWith(results'.failed, p, finalError(lastOutcome')) >= 1]_vars

\* The sync returned after the first chunk was rejected with 401 and the
\* second was accepted.
C31_Witness ==
  /\ SyncReturned
  /\ Len(chunks) = 2
  /\ Len(results.failed) = 1
  /\ results.failed[1] = [sku |-> 1, error |-> AuthenticationError]
  /\ Count(results.success, 2) = 1

\* ------------------------------------------------- backoff: claims
\* The delays are base, 2 * base, 4 * base, ...
Doubling(slept, base) ==
  \A i \in 1..Len(slept) : slept[i] = IF i = 1 THEN base ELSE 2 * slept[i - 1]

\* C32: in the batch sync and in the single-product sync, the delay slept
\* after the k-th failed attempt, when a retry follows it, is the k-th of the
\* delays base, 2 * base, 4 * base, ...; an attempt that succeeded or was the
\* last one is followed by no delay.
C32_ExponentialBackoff ==
  /\ [](Doubling(delays, retryDelay) /\ Doubling(remote.delays, SingleRetryDelay))
  /\ [][/\ (attempts' # attempts \/ loggedChunk' # loggedChunk) =>
            IF lastOutcome' # OkOutcome /\ chunkIndex' = chunkIndex /\ syncPc' = "attempt"
            THEN Len(delays') = attempts' /\ SubSeq(delays', 1, Len(delays)) = delays
            ELSE delays' = delays
       /\ remote'.attempts = remote.attempts + 1 =>
            IF remote'.pc = "inflight"
            THEN /\ Len(remote'.delays) = remote'.attempts
                 /\ SubSeq(remote'.delays, 1, Len(remote.delays)) = remote.delays
            ELSE remote'.delays = remote.delays]_vars

\* Both syncs gave up after three attempts, having slept their base delay
\* and twice that.
C32_Witness ==
  /\ LoggedChunkFinished /\ attempts = 3 /\ lastOutcome # OkOutcome
  /\ delays = <<retryDelay, 2 * retryDelay>>
  /\ remote.pc = "done" /\ remote.outcome = "failed"
  /\ remote.delays = <<SingleRetryDelay, 2 * SingleRetryDelay>>

\* --------------------------------------- single-product sync: claims
\* C33: the single-product sync sends at most maxRetries + 1 requests, with
\* maxRetries at most 2; it sends no request after one that succeeded, was
\* rejected with 401/403 or failed with a 5xx status; and it returns the
\* response of the request that succeeded, or else a failure object.
C33_SingleSyncAttempts ==
  /\ SingleMaxRetries <= 2
  /\ remote.attempts <= SingleMaxRetries + 1
  /\ remote.pc = "inflight" => remote.last \in {"none", "other"}
  /\ (remote.pc = "done" /\ remote.attempts > 0) =>
       /\ remote.outcome \in {"ok", "failed"}
       /\ (remote.outcome = "ok") = (remote.last = "ok")

\* --------------------------------------------- lost updates: claims
\* C34: the stock is read, changed in memory and written back. A save that
\* changes the stock of a product stores the stock its handler read, less the
\* quantity and not below zero (or plus the quantity, when restocking),
\* whatever the stock stored at the time of the save; so of two deliveries
\* that read the same stock the later save undoes the earlier one.
C34_ReadThenWrite ==
  [][\A h \in Handlers :
       LET hr == handlers[h]
           item == hr.doc.line_items[hr.idx]
       IN (hr.pc = "saveProduct" /\ handlers'[h] # hr /\ products' # products) =>
            products'[item.sku].stock =
              IF Restocks(hr) THEN hr.found.stock + item.quantity
              ELSE Max(0, hr.found.stock - item.quantity)]_vars

\* Two order.created deliveries of one unit each both read the stock 2 and
\* both saved: the stock is 1, not 0.
C34_Witness ==
  \E h, g \in Handlers :
    /\ h # g
    /\ failures = 0
    /\ \A k \in {h, g} :
         /\ handlers[k].pc \in {"findCustomer", "markProcessed"}
         /\ handlers[k].event = OrderCreated
         /\ handlers[k].doc.line_items = <<Item("A", 1)>>
         /\ handlers[k].found.stock = 2
    /\ products["A"].stock = 1

\* ------------------------------------------- one at a time: claims
\* C35: deliveries are handled to completion one at a time: while one
\* delivery is being handled, between its lookup of the order and its answer,
\* no other delivery is.
C35_OneAtATime ==
  \A h, g \in Handlers : (~Idle(h) /\ ~Idle(g)) => h = g

\* ------------------------------------------- customer names: claims
\* The words of the name assembled from a billing block whose absent parts
\* count as the empty string: "first last" trimmed.
AssembledName(billing) ==
  SelectSeq(<<billing.first_name, billing.last_name>>, LAMBDA part : part # "")

\* C36: a Customer created from an order has the name assembled from the
\* first and the last name of the billing block, an absent one contributing
\* nothing: the last name alone when only it is given, the empty name when
\* neither is.
C36_NameAssembly ==
  [][Len(customers') = Len(customers) + 1 =>
       \E h \in Handlers :
         /\ handlers[h].pc = "saveCustomer"
         /\ handlers'[h] # handlers[h]
         /\ customers'[Len(customers')].name = AssembledName(handlers[h].doc.billing[1])]_vars

\* ------------------------------------------------ termination: claims
\* C37: the batch sync terminates for every chunk size. The loop that splits
\* N products pushes at most N chunks, and no chunk sees more than
\* maxRetries + 1 requests, so that at most
\* ceil(N / chunkSize) * (maxRetries + 1) requests are sent.
C37_BatchSyncTerminates ==
  /\ pushed <= Len(posProducts)
  /\ syncPc \in {"attempt", "await", "return", "respond"} =>
       /\ pushed = Len(chunks)
       /\ chunkIndex <= pushed
       /\ attempts <= maxRetries + 1

\* ------------------------------------------------ sync status: claims
\* C38: the status endpoint does not disclose the API key. Two servers whose
\* configurations differ only in the value of the key, set on both and of the
\* same length, whose probe ends the same way, answer the same; and the
\* syncEnabled field of an answer is a boolean.
C38_StatusHidesApiKey ==
  (/\ statusResponse # None
   /\ env[1].key.text # "" /\ env[2].key.text # ""
   /\ env[1].key.length = env[2].key.length) =>
    /\ statusResponse[1][1] = statusResponse[1][2]
    /\ \A i \in 1..2 : statusResponse[1][i].syncEnabled.type = "boolean"

\* ------------------------------------------------ restocking: claims
\* C39: over any sequence of deliveries, what cancelled and refunded
\* deliveries add to the stock of a product never exceeds what the
\* order.created deliveries took from it: no product ever has more stock than
\* before the first delivery (every delivery that touches stock is for
\* order 1).
C39_RestockWithinDeduction ==
  history # <<>> =>
    \A s \in DOMAIN products : products[s].stock <= history[1].products[s].stock

\* ------------------------------------- status history and status: claims
\* Every payload delivered so far is self-consistent: the new_status of its
\* transition, if it has one, is its status.
SelfConsistent(requests) ==
  \A i \in 1..Len(requests) :
    LET data == requests[i].body.data[1]
    IN data.status_change # None => data.status_change[1].new_status = data.status

\* C40: the status history agrees with the stored status. With self-consistent
\* payloads, a non-empty status_changes of a stored record ends with an entry
\* whose new_status is the record's status, and a step that changes the
\* stored status of a record adds an entry to its status_changes.
C40_HistoryMatchesStatus ==
  /\ [](SelfConsistent(history) =>
          \A o \in orders :
            o.status_changes # <<>> =>
              o.status_changes[Len(o.status_changes)].new_status = o.status)
  /\ [][SelfConsistent(history') =>
          \A o \in orders : \A n \in orders' :
            (n._id = o._id /\ n.status # o.status) =>
              Len(n.status_changes) > Len(o.status_changes)]_vars

====
